---- MODULE Spec2Model ----
(***************************************************************************)
(* State-machine model of the pysecspy client (class SecuritySpy in        *)
(* src/pysecspy/secspy.py with the ledgers of src/pysecspy/data.py):       *)
(* the update arbiter, the stream listener, the line tokenizer, the two    *)
(* ledgers and the projected camera state.                                 *)
(*                                                                         *)
(* Python values are encoded as follows.  A dict is a function whose       *)
(* domain is the set of keys present.  None is PyNone for string-valued    *)
(* keys and NoneOpt (the empty tuple) for the other keys, whose values are *)
(* then wrapped as <<v>>.  A 14-digit timestamp token is the record        *)
(* [date, time] of its first eight and last six digits.  A score is an     *)
(* int or a str of decimal digits, kept apart because Python orders str    *)
(* values lexicographically and refuses to order a str against an int.     *)
(* Event lengths are counted in thousandths (the code rounds to            *)
(* EVENT_LENGTH_PRECISION = 3 decimals).  The projected record keeps the   *)
(* fields the state machine decides; the display-only fields (name, model, *)
(* URLs, image size, fps, PTZ presets) are not modelled.                   *)
(***************************************************************************)
EXTENDS Integers, Sequences, FiniteSets, TLC

VARIABLES
    now,                      \* time.time(), in seconds
    last_device_update_time,  \* self._last_device_update_time
    last_websocket_check,     \* self._last_websocket_check
    is_first_update,          \* self._is_first_update
    ws_task,                  \* self._ws_task: "None", "running" or "done"
    ws_stream,                \* self._ws_stream: "None", "open" or "closed"
    ws_session,               \* self._ws_session: "None", "open" or "closed"
    orphans,                  \* reader tasks still running that self._ws_task no longer names
    upd,                      \* the update() call in flight: pc and locals
    lsn,                      \* the consumer's start_listening() or stop_listening() call in flight: pc
    devices,                  \* SecspyDeviceStateMachine._devices
    motion_detected_time,     \* SecspyDeviceStateMachine._motion_detected_time
    events,                   \* SecspyEventStateMachine._events (ordered)
    processed_data,           \* self._processed_data
    score_human,              \* self._global_event_score_human
    score_vehicle,            \* self._global_event_score_vehicle
    score_animal,             \* self._global_event_score_animal
    event_object,             \* self._global_event_object
    ws_subscriptions,         \* self._ws_subscriptions
    out,                      \* outcome of the last step: what it was, what it returned, whom it notified
    hist,                     \* per camera, the last event lines handled for it (newest last)
    nlines,                   \* number of stream lines delivered so far
    rdr                       \* the reader task's place: at its await, or inside a line

vars == <<now, last_device_update_time, last_websocket_check, is_first_update,
          ws_task, ws_stream, ws_session, orphans, upd, lsn, devices,
          motion_detected_time, events,
          processed_data, score_human, score_vehicle, score_animal,
          event_object, ws_subscriptions, out, hist, nlines, rdr>>

----------------------------------------------------------------------------
\* Bounds of the model.

MaxLines == 1
MaxStreamLines == 3
MaxAllLines == 2
MaxTime == 1125
StartTime == 1000
MaxSubs == 1
\* registrations in the list, and lines read, where the list is what is looked at
MaxRegs == 3
MaxSubLines == 2
SubCallbacks == {"cb1", "cb2"}
MaxOrphans == 1
\* event ids added to the event ledger on its own: two more than its capacity
MaxLedgerIds == 514
\* the ordinals of the event ids that are updated, and of those added again
ProbeOrdinals == {1, 2}
AgainOrdinals == {1}

CamIds == {"1", "2"}
PolledCamIds == {"1"}
Callbacks == {"cb1"}
TimeSteps == {61, 121}
\* the steps of the clock around the poll interval
ArbiterSteps == {60, 61}
EventDate == 20190927
EventTimeBase == 92026
ScoreTriples == {<< <<3, 0>>, <<9, 5>>, <<1, 0>> >>,
                 << <<1, 0, 0>>, <<9, 5>>, <<1, 0>> >>,
                 << <<5, 0>>, <<5, 0>>, <<1, 0>> >>}
ExampleTriple == << <<3, 0>>, <<9, 5>>, <<1, 0>> >>
HistLen == 3
ReasonTokens == {"128"}
SinceLastMotion == {5000}

----------------------------------------------------------------------------
\* Program constants.

DEVICE_UPDATE_INTERVAL_SECONDS == 60
WEBSOCKET_CHECK_INTERVAL_SECONDS == 120
EVENT_LENGTH_PRECISION == 3
MAX_SUPPORTED_CAMERAS == 256
MAX_EVENT_HISTORY_IN_STATE_MACHINE == MAX_SUPPORTED_CAMERAS * 2

KEY_CAMERA == "camera"
KEY_EVENT == "event"
EVENT_MOTION == "motion"
EVENT_SMART_DETECT_ZONE == "smart"

CAMERA_MESSAGES == {"ARM_A", "DISARM_A", "ARM_C", "DISARM_C", "ARM_M", "DISARM_M"}
EVENT_MESSAGES == {"TRIGGER_M", "MOTION", "CLASSIFY", "MOTION_END", "ONLINE", "OFFLINE"}

CAMERA_KEYS == {"state", "recordingSettings_A", "recordingSettings_C",
                "recordingSettings_M", "recording_mode_a", "recording_mode_c",
                "recording_mode_m", "isOnline", "enabled", "reason",
                "lastMotion", "isMotionDetected"}

----------------------------------------------------------------------------
\* Python values.

PyNone == "<None>"
NoneOpt == <<>>
Some(v) == <<v>>

EmptyDict == [k \in {} |-> NoneOpt]

\* dict.get(k) with a default
Get(d, k, default) == IF k \in DOMAIN d THEN d[k] ELSE default

\* dict.update(u): keys of u overwrite, the other keys stay
DictUpdate(d, u) ==
    [k \in (DOMAIN d) \cup (DOMAIN u) |-> IF k \in DOMAIN u THEN u[k] ELSE d[k]]

\* d[k] = v on a dict of dicts
DictSet(d, k, v) ==
    [x \in (DOMAIN d) \cup {k} |-> IF x = k THEN v ELSE d[x]]

IntScore(n) == [isStr |-> FALSE, num |-> n, digits |-> <<>>]
StrScore(s) == [isStr |-> TRUE, num |-> 0, digits |-> s]

\* str > str in Python: lexicographic on the characters
RECURSIVE StrGt(_, _)
StrGt(a, b) ==
    IF a = <<>> THEN FALSE
    ELSE IF b = <<>> THEN TRUE
    ELSE IF Head(a) # Head(b) THEN Head(a) > Head(b)
    ELSE StrGt(Tail(a), Tail(b))

\* x > y in Python: "T", "F", or "E" for the TypeError of a str/int comparison
PyGt(x, y) ==
    IF x.isStr # y.isStr THEN "E"
    ELSE IF x.isStr THEN (IF StrGt(x.digits, y.digits) THEN "T" ELSE "F")
    ELSE (IF x.num > y.num THEN "T" ELSE "F")

\* (p) and (q) in Python: q is evaluated only when p is true
PyAnd(p, q) == IF p = "T" THEN q ELSE p

\* truthiness of a score: int 0 is false, any non-empty str is true
ScoreTruthy(x) == IF x.isStr THEN x.digits # <<>> ELSE x.num # 0

----------------------------------------------------------------------------
\* Timestamps.

Timestamp(d, t) == [date |-> d, time |-> t]

\* strptime(ts, "%Y%m%d%H%M%S") accepts the token
ValidTimestamp(ts) ==
    LET mo == (ts.date \div 100) % 100
        d  == ts.date % 100
        h  == ts.time \div 10000
        mi == (ts.time \div 100) % 100
        s  == ts.time % 100
    IN  /\ mo \in 1..12 /\ d \in 1..31
        /\ h \in 0..23 /\ mi \in 0..59 /\ s \in 0..61

\* _process_timestamp: "YYYYMMDDhhmmss" -> "YYYY-MM-DD hh:mm:ss"
ProcessTimestamp(ts) ==
    [y  |-> ts.date \div 10000, mo |-> (ts.date \div 100) % 100, d |-> ts.date % 100,
     h  |-> ts.time \div 10000, mi |-> (ts.time \div 100) % 100, s |-> ts.time % 100]

\* datetime.fromtimestamp(ms / 1000).strftime("%Y-%m-%d %H:%M:%S"), for the
\* first days of the epoch (UTC)
FromTimestampMillis(ms) ==
    LET sec == ms \div 1000
    IN  [y  |-> 1970, mo |-> 1, d |-> 1 + (sec \div 86400),
         h  |-> (sec % 86400) \div 3600, mi |-> (sec % 3600) \div 60, s |-> sec % 60]

\* the difference of the two tokens taken from the end to the start
EventLengthSwapped(start, end) ==
    (start.date - end.date) * 1000000 + (start.time - end.time)

\* round(float(end) / 1000 - float(start) / 1000, EVENT_LENGTH_PRECISION), in
\* thousandths: the two tokens are read as plain numbers
EventLengthMillis(start, end) ==
    (end.date - start.date) * 1000000 + (end.time - start.time)

----------------------------------------------------------------------------
\* Device Ledger (SecspyDeviceStateMachine).

HasDevice(devs, device_id) == device_id \in DOMAIN devs

\* update keeping the updated device alone in the ledger
DeviceUpdateOnly(devs, device_id, new_json) ==
    (device_id :> DictUpdate(Get(devs, device_id, EmptyDict), new_json))

\* update putting the new fields in the place of the device's record
DeviceUpdateReplacing(devs, device_id, new_json) == DictSet(devs, device_id, new_json)

\* update(): setdefault(device_id, {}).update(new_json)
DeviceUpdate(devs, device_id, new_json) ==
    DictSet(devs, device_id, DictUpdate(Get(devs, device_id, EmptyDict), new_json))

GetMotionDetectedTime(mdt, device_id) == Get(mdt, device_id, NoneOpt)

SetMotionDetectedTime(mdt, device_id, timestamp) == DictSet(mdt, device_id, timestamp)

----------------------------------------------------------------------------
\* Event Ledger (SecspyEventStateMachine over FixSizeOrderedDict).

SeqRange(s) == {s[i] : i \in 1..Len(s)}

EmptyLedger == [keys |-> <<>>, vals |-> EmptyDict]

\* __setitem__ popping the last-inserted entry: popitem(True)
FixSizeSetItemLast(ev, key, value, max_size) ==
    LET keys1 == IF key \in SeqRange(ev.keys) THEN ev.keys ELSE Append(ev.keys, key)
        vals1 == DictSet(ev.vals, key, value)
    IN  IF max_size > 0 /\ Len(keys1) > max_size
        THEN [keys |-> SubSeq(keys1, 1, Len(keys1) - 1),
              vals |-> [k \in (DOMAIN vals1) \ {keys1[Len(keys1)]} |-> vals1[k]]]
        ELSE [keys |-> keys1, vals |-> vals1]

\* FixSizeOrderedDict.__setitem__: a present key keeps its place, a new key goes
\* last, and beyond max_size the first-inserted entry is popped
FixSizeSetItem(ev, key, value, max_size) ==
    LET keys1 == IF key \in SeqRange(ev.keys) THEN ev.keys ELSE Append(ev.keys, key)
        vals1 == DictSet(ev.vals, key, value)
    IN  IF max_size > 0 /\ Len(keys1) > max_size
        THEN [keys |-> Tail(keys1),
              vals |-> [k \in (DOMAIN vals1) \ {Head(keys1)} |-> vals1[k]]]
        ELSE [keys |-> keys1, vals |-> vals1]

\* add on a ledger made with max_size = 0, which has no limit
EventAddUnbounded(ev, event_id, event_json) == FixSizeSetItem(ev, event_id, event_json, 0)

\* add leaving the record of a present id as it is
EventAddIfAbsent(ev, event_id, event_json) ==
    IF event_id \in DOMAIN ev.vals THEN ev
    ELSE FixSizeSetItem(ev, event_id, event_json, MAX_EVENT_HISTORY_IN_STATE_MACHINE)

\* SecspyEventStateMachine.add
EventAdd(ev, event_id, event_json) ==
    FixSizeSetItem(ev, event_id, event_json, MAX_EVENT_HISTORY_IN_STATE_MACHINE)

\* update making a record of the new fields for an id that has none
EventUpdateCreating(ev, event_id, new_event_json) ==
    LET merged == DictUpdate(Get(ev.vals, event_id, EmptyDict), new_event_json)
    IN  [found |-> TRUE,
         ledger |-> [keys |-> IF event_id \in SeqRange(ev.keys) THEN ev.keys
                              ELSE Append(ev.keys, event_id),
                     vals |-> DictSet(ev.vals, event_id, merged)],
         event |-> merged]

\* update putting the new fields in the place of the record
EventUpdateReplacing(ev, event_id, new_event_json) ==
    IF event_id \notin DOMAIN ev.vals
    THEN [found |-> FALSE, ledger |-> ev, event |-> EmptyDict]
    ELSE [found |-> TRUE,
          ledger |-> [ev EXCEPT !.vals = DictSet(ev.vals, event_id, new_event_json)],
          event |-> new_event_json]

\* SecspyEventStateMachine.update: found is FALSE for the None return
EventUpdate(ev, event_id, new_event_json) ==
    IF event_id \notin DOMAIN ev.vals
    THEN [found |-> FALSE, ledger |-> ev, event |-> EmptyDict]
    ELSE LET merged == DictUpdate(ev.vals[event_id], new_event_json)
         IN  [found |-> TRUE,
              ledger |-> [ev EXCEPT !.vals = DictSet(ev.vals, event_id, merged)],
              event |-> merged]

----------------------------------------------------------------------------
\* Motion lifecycle resolver.

REASON_CODES == [r \in {"128", "256", "512"} |->
                    IF r = "128" THEN "Human" ELSE IF r = "256" THEN "Vehicle" ELSE "Animal"]

PROCESSED_EVENT_EMPTY ==
    [event_start |-> NoneOpt, event_on |-> FALSE, event_type |-> PyNone,
     event_online |-> Some(TRUE), event_length |-> 0, event_object |-> PyNone,
     event_score_human |-> IntScore(0), event_score_vehicle |-> IntScore(0),
     event_score_animal |-> IntScore(0)]

\* 0 if not event.get(key) else event.get(key)
ScoreOrZero(event, key) ==
    IF key \in DOMAIN event /\ ScoreTruthy(event[key]) THEN event[key] ELSE IntScore(0)

\* _process_event_data raises: an unparsable start, or an end without a start
ProcessEventDataError(event) ==
    IF "start" \in DOMAIN event /\ ~ValidTimestamp(event["start"]) THEN "ValueError"
    ELSE IF "end" \in DOMAIN event /\ "start" \notin DOMAIN event THEN "TypeError"
    ELSE ""

\* a flag that is on for the motion-type records that have an end
EventOnWithEnd(event_type, has_end) ==
    event_type \in {EVENT_MOTION, EVENT_SMART_DETECT_ZONE} /\ has_end

\* the event_on flag: a motion-type record with no end
EventOnOf(event_type, has_end) ==
    event_type \in {EVENT_MOTION, EVENT_SMART_DETECT_ZONE} /\ ~has_end

\* _process_event_data, when it does not raise
ProcessEventData(event) ==
    LET has_start    == "start" \in DOMAIN event
        has_end      == "end" \in DOMAIN event
        event_type   == Get(event, "type", PyNone)
        event_reason == Get(event, "reason", PyNone)
        start_time   == IF has_start THEN Some(ProcessTimestamp(event["start"])) ELSE NoneOpt
        event_length == IF has_end THEN EventLengthMillis(event["start"], event["end"]) ELSE 0
        base ==
            [event_on |-> EventOnOf(event_type, has_end),
             event_type |-> event_type,
             event_start |-> start_time,
             event_length |-> event_length,
             event_object |-> IF event_reason \in DOMAIN REASON_CODES
                              THEN REASON_CODES[event_reason] ELSE "None",
             event_score_human |-> ScoreOrZero(event, "event_score_human"),
             event_score_vehicle |-> ScoreOrZero(event, "event_score_vehicle"),
             event_score_animal |-> ScoreOrZero(event, "event_score_animal"),
             event_online |-> IF "isOnline" \in DOMAIN event
                              THEN Some(event["isOnline"]) ELSE NoneOpt]
    IN  IF event_type \in {EVENT_MOTION, EVENT_SMART_DETECT_ZONE}
        THEN DictUpdate(base, [last_motion |-> start_time])
        ELSE base

----------------------------------------------------------------------------
\* Camera projector.

\* _process_camera_data(server_id, server_credentials, camera, include_events);
\* time_now is time.time() at the call
ProcessCameraData(camera, include_events, time_now) ==
    LET recmode(setting, mode) ==
            IF Get(camera, setting, NoneOpt) # NoneOpt
            THEN camera[setting][1]
            ELSE camera[mode] = "armed"
        camera_update ==
            [online |-> camera["connected"] = "yes",
             enabled |-> Get(camera, "enabled", NoneOpt),
             recording_mode_a |-> recmode("recordingSettings_A", "mode-a"),
             recording_mode_c |-> recmode("recordingSettings_C", "mode-c"),
             recording_mode_m |-> recmode("recordingSettings_M", "mode-m")]
        last_motion ==
            IF Get(camera, "timesincelastmotion", NoneOpt) # NoneOpt
            THEN Some(FromTimestampMillis(time_now + camera["timesincelastmotion"][1]))
            ELSE NoneOpt
    IN  IF include_events
        THEN DictUpdate(camera_update, [last_motion |-> last_motion])
        ELSE camera_update

\* _update_device: setdefault(device_id, {}).update(processed_update)
UpdateDevice(pdata, device_id, processed_update) ==
    DictSet(pdata, device_id,
            DictUpdate(Get(pdata, device_id, EmptyDict), processed_update))

\* a projection that folds the poll's motion timestamp in on every poll
IncludeEventsAlways(include_events, first_update) == TRUE

\* _process_cameras: whether the projection folds the poll's motion timestamp in
IncludeEvents(include_events, first_update) == include_events \/ first_update

\* _process_cameras, one camera of the snapshot; st is [devices, pdata]
ProcessOneCamera(st, camera0, include_events, first_update, time_now) ==
    LET camera_id == camera0["number"]
        pdata1 == IF first_update
                  THEN UpdateDevice(st.pdata, camera_id, PROCESSED_EVENT_EMPTY)
                  ELSE st.pdata
        camera == IF first_update
                  THEN DictUpdate(camera0, [enabled |-> Some(TRUE)])
                  ELSE camera0
    IN  [devices |-> DeviceUpdate(st.devices, camera_id, camera),
         pdata |-> UpdateDevice(pdata1, camera_id,
                       ProcessCameraData(camera, IncludeEvents(include_events, first_update),
                                         time_now))]

\* _process_cameras: the cameras of the snapshot in their order
RECURSIVE ProcessCameras(_, _, _, _, _)
ProcessCameras(st, cameras, include_events, first_update, time_now) ==
    IF cameras = <<>> THEN st
    ELSE ProcessCameras(
             ProcessOneCamera(st, Head(cameras), include_events, first_update, time_now),
             Tail(cameras), include_events, first_update, time_now)

----------------------------------------------------------------------------
\* Subscribers.

\* fire_event: the projected state after _update_device, and the callbacks
\* invoked, in the order of the subscription list
FireEvent(pdata, subs, device_id, processed_event) ==
    [pdata |-> UpdateDevice(pdata, device_id, processed_event),
     notified |-> [i \in 1..Len(subs) |-> [cb |-> subs[i], id |-> device_id]]]

\* list.remove(x): the first occurrence goes
RECURSIVE ListRemove(_, _)
\* list.remove taking out every occurrence of x
ListRemoveAll(s, x) == SelectSeq(s, LAMBDA y : y # x)

ListRemove(s, x) ==
    IF s = <<>> THEN <<>>
    ELSE IF Head(s) = x THEN Tail(s)
    ELSE <<Head(s)>> \o ListRemove(Tail(s), x)

----------------------------------------------------------------------------
\* Message tokenizer (_process_message) and the two pipelines behind it.
\* A line is [numeric, ntok, ts, cam, key, reason, h, v, a]: whether its first 14
\* characters are digits, its number of tokens, and tokens 0, 2, 3, 4, 5, 7, 9.
\* The client state a line reads and writes is the record
\* [devices, events, pdata, sh, sv, sa, obj, subs, time]; a result adds to it
\* err (the exception caught and logged, "" for none), the emitted action_json
\* and data_json, and the callbacks notified.

Result(st, err, action, data, notified) ==
    [devices |-> st.devices, events |-> st.events, pdata |-> st.pdata,
     sh |-> st.sh, sv |-> st.sv, sa |-> st.sa, obj |-> st.obj,
     err |-> err, action |-> action, data |-> data, notified |-> notified]

\* the CLASSIFY branch's try / except / finally over the score accumulators
ClassifyScores(line, st) ==
    LET h1   == IF line.ntok >= 6 THEN StrScore(line.h) ELSE st.sh
        v1   == IF line.ntok >= 8 THEN StrScore(line.v) ELSE st.sv
        a1   == IF line.ntok >= 10 THEN StrScore(line.a) ELSE IntScore(0)
        obj1 == IF line.ntok >= 10 THEN PyNone ELSE st.obj
        c1   == PyAnd(PyGt(h1, v1), PyGt(h1, a1))
        obj2 == IF c1 = "T" THEN "128" ELSE obj1
        c2   == PyAnd(PyGt(v1, h1), PyGt(v1, a1))
        obj3 == IF c2 = "T" THEN "256" ELSE obj2
        c3   == PyAnd(PyGt(a1, h1), PyGt(a1, v1))
        obj4 == IF c3 = "T" THEN "512" ELSE obj3
    IN  IF c1 = "E" THEN [sh |-> h1, sv |-> v1, sa |-> a1, obj |-> obj1, err |-> "TypeError"]
        ELSE IF c2 = "E" THEN [sh |-> h1, sv |-> v1, sa |-> a1, obj |-> obj2, err |-> "TypeError"]
        ELSE IF c3 = "E" THEN [sh |-> h1, sv |-> v1, sa |-> a1, obj |-> obj3, err |-> "TypeError"]
        ELSE [sh |-> h1, sv |-> v1, sa |-> a1, obj |-> obj4, err |-> ""]

\* _camera_event_from_updates: the camera data_json of the tokenizer carries
\* none of isMotionDetected, timesincelastmotion, isOnline, so the call takes
\* its early return of None
CameraEventFromUpdates(data_json) ==
    IF /\ "isMotionDetected" \notin DOMAIN data_json
       /\ "timesincelastmotion" \notin DOMAIN data_json
       /\ "isOnline" \notin DOMAIN data_json
    THEN [err |-> "", event |-> EmptyDict]
    ELSE [err |-> "KeyError", event |-> EmptyDict]

\* _process_camera_updates with _camera_from_updates
ProcessCameraUpdates(st, action_json, data_json) ==
    IF "modelKey" \notin DOMAIN action_json
    THEN Result(st, "KeyError", action_json, data_json, <<>>)
    ELSE IF action_json["modelKey"] # KEY_CAMERA
    THEN Result(st, "ValueError", action_json, data_json, <<>>)
    ELSE IF ~HasDevice(st.devices, action_json["id"])
    THEN Result(st, "", action_json, data_json, <<>>)
    ELSE
        LET camera_id == action_json["id"]
            devices1 == DeviceUpdate(st.devices, camera_id, data_json)
            st1 == [st EXCEPT !.devices = devices1]
            processed_camera == ProcessCameraData(devices1[camera_id], TRUE, st.time)
            ev == CameraEventFromUpdates(data_json)
            fired == FireEvent(st.pdata, st.subs, camera_id, processed_camera)
        IN  IF (DOMAIN data_json) \cap CAMERA_KEYS = {}
            THEN Result(st1, "", action_json, data_json, <<>>)
            ELSE IF (~processed_camera["recording_mode_m"]
                     \/ ~processed_camera["recording_mode_c"]
                     \/ ~processed_camera["recording_mode_a"]) /\ ev.err # ""
            THEN Result(st1, ev.err, action_json, data_json, <<>>)
            ELSE Result([st1 EXCEPT !.pdata = fired.pdata], "",
                        action_json, data_json, fired.notified)

\* _process_event_updates with _event_from_updates
ProcessEventUpdates(st, action_json, data_json) ==
    IF "modelKey" \notin DOMAIN action_json
    THEN Result(st, "KeyError", action_json, data_json, <<>>)
    ELSE IF action_json["modelKey"] # KEY_EVENT
    THEN Result(st, "ValueError", action_json, data_json, <<>>)
    ELSE IF action_json["action"] \notin {"add", "update"}
    THEN Result(st, "ValueError", action_json, data_json, <<>>)
    ELSE
        LET event_id == action_json["id"]
            is_add == action_json["action"] = "add"
            upd_res == EventUpdate(st.events, event_id, data_json)
            events1 == IF is_add THEN EventAdd(st.events, event_id, data_json)
                       ELSE upd_res.ledger
            event == IF is_add THEN data_json ELSE upd_res.event
            st1 == [st EXCEPT !.events = events1]
        IN  IF is_add /\ "camera" \notin DOMAIN data_json
            THEN Result(st, "", action_json, data_json, <<>>)
            ELSE IF ~is_add /\ ~upd_res.found
            THEN Result(st, "", action_json, data_json, <<>>)
            ELSE IF ProcessEventDataError(event) # ""
            THEN Result(st1, ProcessEventDataError(event), action_json, data_json, <<>>)
            ELSE LET fired == FireEvent(st.pdata, st.subs, event["camera"],
                                        ProcessEventData(event))
                 IN  Result([st1 EXCEPT !.pdata = fired.pdata], "",
                            action_json, data_json, fired.notified)

\* the data_json of a camera-targeted line
CameraDataJson(action_key) ==
    IF action_key = "ARM_A" THEN [recordingSettings_A |-> Some(TRUE)]
    ELSE IF action_key = "ARM_C" THEN [recordingSettings_C |-> Some(TRUE)]
    ELSE IF action_key = "ARM_M" THEN [recordingSettings_M |-> Some(TRUE)]
    ELSE IF action_key = "DISARM_A" THEN [recordingSettings_A |-> Some(FALSE)]
    ELSE IF action_key = "DISARM_C" THEN [recordingSettings_C |-> Some(FALSE)]
    ELSE IF action_key = "DISARM_M" THEN [recordingSettings_M |-> Some(FALSE)]
    ELSE EmptyDict

\* the action_json of an event-targeted line
EventActionJson(line) ==
    [modelKey |-> KEY_EVENT,
     action |-> IF line.key = "MOTION_END" THEN "update" ELSE "add",
     id |-> line.cam]

\* the data_json of an event-targeted line; g holds the accumulators after the
\* line's own assignments to them
EventDataJson(line, g) ==
    IF line.key \in {"ONLINE", "OFFLINE"}
    THEN [type |-> "online", camera |-> line.cam, isOnline |-> line.key = "ONLINE"]
    ELSE IF line.key \in {"TRIGGER_M", "MOTION"}
    THEN [type |-> "motion", start |-> line.ts, camera |-> line.cam, reason |-> g.obj,
          event_score_human |-> g.sh, event_score_vehicle |-> g.sv,
          isMotionDetected |-> TRUE, isOnline |-> TRUE]
    ELSE IF line.key = "MOTION_END"
    THEN [type |-> "motion", end |-> line.ts, camera |-> line.cam,
          isMotionDetected |-> FALSE, reason |-> g.obj,
          event_score_human |-> g.sh, event_score_vehicle |-> g.sv, isOnline |-> TRUE]
    ELSE [type |-> "motion", start |-> line.ts, camera |-> line.cam, reason |-> g.obj,
          event_score_human |-> g.sh, event_score_vehicle |-> g.sv,
          event_score_animal |-> g.sa, isOnline |-> TRUE]

\* the accumulators after an event-targeted line's assignments, with the
\* exception raised on the way
EventAccumulators(line, st) ==
    IF line.key = "TRIGGER_M"
    THEN IF line.ntok < 5
         THEN [sh |-> st.sh, sv |-> st.sv, sa |-> st.sa, obj |-> st.obj, err |-> "IndexError"]
         ELSE [sh |-> st.sh, sv |-> st.sv, sa |-> st.sa, obj |-> line.reason, err |-> ""]
    ELSE IF line.key = "MOTION_END"
    THEN [sh |-> IntScore(0), sv |-> IntScore(0), sa |-> st.sa, obj |-> PyNone, err |-> ""]
    ELSE IF line.key = "CLASSIFY"
    THEN ClassifyScores(line, st)
    ELSE [sh |-> st.sh, sv |-> st.sv, sa |-> st.sa, obj |-> st.obj, err |-> ""]

\* model_key with every code that is not a camera code taken for an event code
ModelKeyOrEvent(action_key) ==
    IF action_key \in CAMERA_MESSAGES THEN KEY_CAMERA ELSE KEY_EVENT

\* the model_key _process_message gives an action code: the event codes are
\* tested last, so they win
ModelKeyOf(action_key) ==
    IF action_key \in EVENT_MESSAGES THEN KEY_EVENT
    ELSE IF action_key \in CAMERA_MESSAGES THEN KEY_CAMERA
    ELSE PyNone

\* _process_message
ProcessMessage(line, st) ==
    IF ~line.numeric
    THEN Result(st, "", EmptyDict, EmptyDict, <<>>)
    ELSE IF line.ntok < 4
    THEN Result(st, "IndexError", EmptyDict, EmptyDict, <<>>)
    ELSE IF ModelKeyOf(line.key) = KEY_EVENT
    THEN LET g == EventAccumulators(line, st)
             st1 == [st EXCEPT !.sh = g.sh, !.sv = g.sv, !.sa = g.sa, !.obj = g.obj]
         IN  IF g.err # ""
             THEN Result(st1, g.err, EmptyDict, EmptyDict, <<>>)
             ELSE ProcessEventUpdates(st1, EventActionJson(line), EventDataJson(line, g))
    ELSE IF ModelKeyOf(line.key) = KEY_CAMERA
    THEN ProcessCameraUpdates(st, [modelkey |-> KEY_CAMERA, id |-> line.cam],
                              CameraDataJson(line.key))
    ELSE Result(st, "", EmptyDict, EmptyDict, <<>>)

----------------------------------------------------------------------------
\* Inputs: stream lines and poll snapshots.

\* the timestamp token of the n-th line of the stream (the recorder's clock
\* moves on between lines)
LineTimestamp(n) == Timestamp(EventDate, EventTimeBase + n * (n + 3))

Line(key, cam, ntok, reason, triple) ==
    [numeric |-> TRUE, ntok |-> ntok, ts |-> LineTimestamp(0),
     cam |-> cam, key |-> key, reason |-> reason,
     h |-> triple[1], v |-> triple[2], a |-> triple[3]]

NoScores == << <<>>, <<>>, <<>> >>

\* the lines of the event life cycle, without their timestamp: for camera "1"
\* the motion, trigger and classification lines, an ONLINE line and an ARM line,
\* for the other cameras the motion start and end
StreamLines ==
    {Line(k, c, 4, "", NoScores) : k \in {"MOTION", "MOTION_END"}, c \in CamIds}
    \cup {Line(k, "1", 4, "", NoScores) : k \in {"ONLINE", "TRIGGER_M", "ARM_A"}}
    \cup {Line("TRIGGER_M", "1", 5, r, NoScores) : r \in ReasonTokens}
    \cup {Line("CLASSIFY", "1", 10, "HUMAN", t) : t \in ScoreTriples}
    \cup {Line("CLASSIFY", "1", 8, "HUMAN", <<t[1], t[2], <<>> >>) : t \in {ExampleTriple}}

\* the lines of the full alphabet: for camera "1" every kind of line, with and
\* without its action-specific tokens, for the other cameras the motion life
\* cycle, and two lines that break the grammar
AllLines ==
    StreamLines
    \cup {Line(k, "1", 4, "", NoScores) :
            k \in {"OFFLINE", "CLASSIFY", "FILE", "DISARM_M"}}
    \cup {Line("CLASSIFY", c, 10, "HUMAN", t) : t \in {ExampleTriple}, c \in CamIds}
    \cup {Line("CLASSIFY", "1", 6, "HUMAN", <<t[1], <<>>, <<>> >>) : t \in {ExampleTriple}}
    \cup {Line("MOTION", "1", 3, "", NoScores)}
    \cup {[Line("MOTION", "1", 4, "", NoScores) EXCEPT !.numeric = FALSE]}

\* the lines of the small alphabet: the motion life cycle
CoreLines ==
    {Line("MOTION", c, 4, "", NoScores) : c \in CamIds}
    \cup {Line("MOTION_END", "1", 4, "", NoScores)}

\* one camera of the systemInfo answer
RawCamera(id, connected, mode_a, tslm) ==
    ("number" :> id) @@ ("connected" :> connected) @@ ("mode-a" :> mode_a)
    @@ ("mode-c" :> "disarmed") @@ ("mode-m" :> "armed")
    @@ (IF tslm = NoneOpt THEN EmptyDict ELSE ("timesincelastmotion" :> tslm))

\* the camera lists a poll can answer with
Snapshots ==
    {<<RawCamera(id, "yes", "armed", NoneOpt)>> : id \in PolledCamIds}
    \cup {<<RawCamera(id, "yes", "disarmed", Some(x))>> :
              id \in PolledCamIds, x \in SinceLastMotion}

----------------------------------------------------------------------------
\* The state machine.

Idle == [pc |-> "idle", time |-> 0, force |-> FALSE, device_update |-> FALSE,
         include_events |-> FALSE, with_events |-> FALSE]

\* the record of a step: the operation, what it returned ("dict" for the
\* projected state, "empty", "None", "raise", or "pending" at an await), the
\* exception, the callbacks notified
Outcome(op, ret, err, notified) ==
    [op |-> op, ret |-> ret, err |-> err, notified |-> notified]

\* the record of a step of update(): also whether the call polled, whether the
\* poll folded the motion timestamps in, whether the stream check was due, the
\* call's argument and the time.time() it read
UpdateOutcome(ret, err, polled, with_events, checked, force, current_time) ==
    [op |-> "update", ret |-> ret, err |-> err, notified |-> <<>>,
     polled |-> polled, with_events |-> with_events, checked |-> checked,
     force |-> force, time |-> current_time]

\* the reader task waiting in "async for msg in self._ws_stream.content"
AtAwait == [pc |-> "await", line |-> <<>>, pending |-> <<>>]

Init ==
    /\ now = StartTime
    /\ last_device_update_time = 0
    /\ last_websocket_check = 0
    /\ is_first_update = TRUE
    /\ ws_task = "None"
    /\ ws_stream = "None"
    /\ ws_session = "None"
    /\ orphans = 0
    /\ upd = Idle
    /\ lsn = "idle"
    /\ devices = EmptyDict
    /\ motion_detected_time = EmptyDict
    /\ events = EmptyLedger
    /\ processed_data = EmptyDict
    /\ score_human = IntScore(0)
    /\ score_vehicle = IntScore(0)
    /\ score_animal = IntScore(0)
    /\ event_object = PyNone
    /\ ws_subscriptions = <<>>
    /\ out = Outcome("init", "None", "", <<>>)
    /\ hist = [c \in CamIds |-> <<>>]
    /\ nlines = 0
    /\ rdr = AtAwait

ledgerVars == <<devices, motion_detected_time, events, processed_data,
                score_human, score_vehicle, score_animal, event_object>>
streamVars == <<ws_task, ws_stream, ws_session, orphans>>
arbiterVars == <<last_device_update_time, last_websocket_check, is_first_update>>

\* time passes
Tick(d) ==
    /\ now + d <= MaxTime
    /\ now' = now + d
    /\ UNCHANGED <<arbiterVars, streamVars, ledgerVars, upd, lsn,
                   ws_subscriptions, out, hist, nlines, rdr>>

\* the poll condition with the interval itself counted as elapsed
PollDueAtInterval(force, current_time, last_update) ==
    force \/ (current_time - DEVICE_UPDATE_INTERVAL_SECONDS) >= last_update

\* the poll condition of update()
PollDue(force, current_time, last_update) ==
    force \/ (current_time - DEVICE_UPDATE_INTERVAL_SECONDS) > last_update

\* the stream-check condition with the interval itself counted as elapsed
StreamCheckDueAtInterval(current_time, last_check) ==
    (current_time - WEBSOCKET_CHECK_INTERVAL_SECONDS) >= last_check

\* the stream-check condition of update()
StreamCheckDue(current_time, last_check) ==
    (current_time - WEBSOCKET_CHECK_INTERVAL_SECONDS) > last_check

\* update(): the return statement; a call that falls off the end returns None
UpdateReturn(task, last_check, current_time, device_update) ==
    IF task # "None" \/ last_check = current_time
    THEN (IF device_update THEN "dict" ELSE "empty")
    ELSE "None"

\* start_listening() up to its await of the stream request: "return" when a
\* task is attached, "raise" when the session is closed, else "await"
StartListeningEntry(task, session) ==
    IF task # "None" THEN "return"
    ELSE IF session = "closed" THEN "raise"
    ELSE "await"

\* update() from the stream check on, up to the next await or the return
UpdateStreamCheck(current_time, force, device_update, with_events) ==
    IF StreamCheckDue(current_time, last_websocket_check)
    THEN /\ last_websocket_check' = current_time
         /\ IF StartListeningEntry(ws_task, ws_session) = "await"
            THEN /\ ws_session' = "open"
                 /\ upd' = [pc |-> "connect", time |-> current_time, force |-> force,
                            device_update |-> device_update, include_events |-> FALSE,
                            with_events |-> with_events]
                 /\ out' = UpdateOutcome("pending", "", device_update, with_events, TRUE,
                                            force, current_time)
            ELSE /\ ws_session' = ws_session
                 /\ upd' = Idle
                 /\ out' = UpdateOutcome(
                               UpdateReturn(ws_task, current_time, current_time, device_update),
                               "", device_update, with_events, TRUE, force, current_time)
    ELSE /\ UNCHANGED <<last_websocket_check, ws_session>>
         /\ upd' = Idle
         /\ out' = UpdateOutcome(
                       UpdateReturn(ws_task, last_websocket_check, current_time, device_update),
                       "", device_update, with_events, FALSE, force, current_time)

\* update(force_camera_update) is called: up to the poll's request, or, with
\* no poll due, on to the stream check
UpdateCall(force) ==
    /\ upd.pc = "idle"
    /\ IF PollDue(force, now, last_device_update_time)
       THEN /\ upd' = [pc |-> "poll", time |-> now, force |-> force, device_update |-> TRUE,
                       include_events |-> (ws_task = "None"), with_events |-> FALSE]
            /\ out' = UpdateOutcome("pending", "", TRUE, FALSE, FALSE, force, now)
            /\ UNCHANGED <<last_websocket_check, ws_session>>
       ELSE UpdateStreamCheck(now, force, FALSE, FALSE)
    /\ UNCHANGED <<now, last_device_update_time, is_first_update, ws_task, ws_stream,
                   orphans, lsn, ledgerVars, ws_subscriptions, hist, nlines, rdr>>

\* the poll's request fails, the time of the tick recorded all the same
PollFailsTimeRecorded ==
    /\ upd.pc = "poll"
    /\ upd' = Idle
    /\ out' = UpdateOutcome("raise", "RequestError", TRUE, FALSE, FALSE, upd.force, upd.time)
    /\ last_device_update_time' = upd.time
    /\ UNCHANGED <<now, last_websocket_check, is_first_update, streamVars, ledgerVars, lsn,
                   ws_subscriptions, hist, nlines, rdr>>

\* the poll's request fails: RequestError goes to the caller of update()
PollFails ==
    /\ upd.pc = "poll"
    /\ upd' = Idle
    /\ out' = UpdateOutcome("raise", "RequestError", TRUE, FALSE, FALSE, upd.force, upd.time)
    /\ UNCHANGED <<now, arbiterVars, streamVars, ledgerVars, lsn,
                   ws_subscriptions, hist, nlines, rdr>>

\* the poll's request answers: _get_devices goes on, then update()
PollAnswers(snapshot) ==
    /\ upd.pc = "poll"
    /\ \E st \in {ProcessCameras([devices |-> devices, pdata |-> processed_data],
                                  snapshot, upd.include_events, is_first_update, now)} :
           /\ devices' = st.devices
           /\ processed_data' = st.pdata
    /\ is_first_update' = FALSE
    /\ last_device_update_time' = upd.time
    /\ UpdateStreamCheck(upd.time, upd.force, TRUE,
                         IncludeEvents(upd.include_events, is_first_update))
    /\ UNCHANGED <<now, ws_task, ws_stream, orphans, lsn, motion_detected_time, events,
                   score_human, score_vehicle, score_animal, event_object,
                   ws_subscriptions, hist, nlines, rdr>>

\* start_listening() after its await: the stream request answered (ok) or
\* raised; on an answer a new reader task is started
Attach(ok) ==
    IF ok
    THEN /\ ws_stream' = "open"
         /\ ws_task' = "running"
         /\ orphans' = IF ws_task = "running" THEN orphans + 1 ELSE orphans
    ELSE UNCHANGED <<ws_stream, ws_task, orphans>>

\* the stream request of update()'s start_listening() ends
UpdateConnected(ok) ==
    /\ upd.pc = "connect"
    /\ ok => (ws_session = "open" /\ (ws_task = "running" => orphans < MaxOrphans))
    /\ Attach(ok)
    /\ upd' = Idle
    /\ out' = UpdateOutcome(
                  UpdateReturn(ws_task', last_websocket_check, upd.time, upd.device_update),
                  "", upd.device_update, upd.with_events, TRUE, upd.force, upd.time)
    /\ UNCHANGED <<now, arbiterVars, ws_session, lsn, ledgerVars,
                   ws_subscriptions, hist, nlines, rdr>>

\* start_listening() is called by the consumer
StartListeningCall ==
    /\ lsn = "idle"
    /\ IF StartListeningEntry(ws_task, ws_session) = "await"
       THEN /\ ws_session' = "open"
            /\ lsn' = "connect"
            /\ out' = Outcome("start_listening", "pending", "", <<>>)
       ELSE /\ UNCHANGED <<ws_session, lsn>>
            /\ out' = Outcome("start_listening", "None", "", <<>>)
    /\ UNCHANGED <<now, arbiterVars, ws_task, ws_stream, orphans, upd, ledgerVars,
                   ws_subscriptions, hist, nlines, rdr>>

\* the stream request of the consumer's start_listening() ends
StartListeningConnected(ok) ==
    /\ lsn = "connect"
    /\ ok => (ws_session = "open" /\ (ws_task = "running" => orphans < MaxOrphans))
    /\ Attach(ok)
    /\ lsn' = "idle"
    /\ out' = Outcome("start_listening", "None", "", <<>>)
    /\ UNCHANGED <<now, arbiterVars, ws_session, upd, ledgerVars,
                   ws_subscriptions, hist, nlines, rdr>>

\* stop_listening going on to close the session without looking at the task
StopListeningAlways(task) == "stop"

\* stop_listening() up to its first statement after the guard: "return" when
\* no task is attached, else "stop"
StopListeningEntry(task) == IF task = "None" THEN "return" ELSE "stop"

\* stop_listening() is called by the consumer: with no task it returns, else
\* it closes the session, which ends the streaming connection, and awaits that
StopListeningCall ==
    /\ lsn = "idle"
    /\ IF StopListeningEntry(ws_task) = "return"
       THEN /\ UNCHANGED <<ws_session, ws_stream, lsn>>
            /\ out' = Outcome("stop_listening", "None", "", <<>>)
       ELSE /\ ws_session' = IF ws_session = "open" THEN "closed" ELSE ws_session
            /\ ws_stream' = IF ws_stream = "open" THEN "closed" ELSE ws_stream
            /\ lsn' = "stopping"
            /\ out' = Outcome("stop_listening", "pending", "", <<>>)
    /\ UNCHANGED <<now, arbiterVars, ws_task, orphans, upd, ledgerVars,
                   ws_subscriptions, hist, nlines, rdr>>

\* stop_listening() after the session is closed: cancel the task, await it,
\* forget it; the call of _LOGGER in the finally clause raises TypeError
StopListeningCancelled ==
    /\ lsn = "stopping"
    /\ ws_task' = "None"
    /\ orphans' = 0
    /\ lsn' = "idle"
    /\ out' = Outcome("stop_listening", "raise", "TypeError", <<>>)
    /\ UNCHANGED <<now, arbiterVars, ws_session, ws_stream, upd, ledgerVars,
                   ws_subscriptions, hist, nlines, rdr>>

\* the transport closes the streaming connection: the reader's iteration over
\* the content ends, by an exception that ends the task (raised) or by end of
\* data, after which the loop "while not self._ws_session.closed" goes on
TransportClose(raised) ==
    /\ ws_stream = "open"
    /\ ws_task = "running" \/ orphans > 0
    /\ ws_stream' = "closed"
    /\ ws_task' = IF raised /\ ws_task = "running" THEN "done" ELSE ws_task
    /\ orphans' = IF raised THEN 0 ELSE orphans
    /\ out' = Outcome("transport_close", "None", "", <<>>)
    /\ UNCHANGED <<now, arbiterVars, ws_session, upd, lsn, ledgerVars,
                   ws_subscriptions, hist, nlines, rdr>>

\* what a callback does when it is invoked: nothing, raise an exception, or
\* call the unsubscribe handle of the callback target
NoReaction == [kind |-> "none", target |-> ""]
Raises == [kind |-> "raise", target |-> ""]
CallsHandleOf(cb) == [kind |-> "unsub", target |-> cb]

\* callbacks that do nothing but take the record
Quiet == [cb \in Callbacks \cup SubCallbacks |-> NoReaction]

\* fire_event's loop "for subscriber in self._ws_subscriptions" from position
\* i on: the iterator reads the live list by position, so what a callback
\* removes moves the later callbacks one place down; list.remove raises
\* ValueError for a callback that is not in the list, and an exception leaves
\* the loop
RECURSIVE NotifyLoop(_, _, _, _)
NotifyLoop(subs, i, react, invoked) ==
    IF i > Len(subs) THEN [subs |-> subs, invoked |-> invoked, err |-> ""]
    ELSE LET cb == subs[i]
             called == Append(invoked, cb)
         IN  IF react[cb].kind = "raise"
             THEN [subs |-> subs, invoked |-> called, err |-> "Exception"]
             ELSE IF react[cb].kind = "unsub"
             THEN IF react[cb].target \notin SeqRange(subs)
                  THEN [subs |-> subs, invoked |-> called, err |-> "ValueError"]
                  ELSE NotifyLoop(ListRemove(subs, react[cb].target), i + 1, react, called)
             ELSE NotifyLoop(subs, i + 1, react, called)

\* the notification of a line that reached fire_event for device_id: the
\* callbacks invoked, the list they leave, the exception that left the loop
Notify(reached, device_id, subs, react) ==
    IF ~reached THEN [subs |-> subs, notified |-> <<>>, err |-> ""]
    ELSE LET loop == NotifyLoop(subs, 1, react, <<>>)
         IN  [subs |-> loop.subs,
              notified |-> [i \in 1..Len(loop.invoked) |->
                               [cb |-> loop.invoked[i], id |-> device_id]],
              err |-> loop.err]

\* a reader that an exception of a line ends
ReaderEndsOnError(task, err) == IF err # "" THEN "done" ELSE task

\* the reader after a line: _process_message catches every Exception, logs it
\* and returns, and the loop over the stream goes on
ReaderAfterLine(task, err) == task

\* the reader task takes one line off the stream: _process_message(data); the
\* callbacks react as react says
StreamLineReacting(l, max_lines, react) ==
    /\ ws_stream = "open"
    /\ ws_task = "running" \/ orphans > 0
    /\ nlines < max_lines
    /\ LET line == [l EXCEPT !.ts = LineTimestamp(nlines)]
           st == [devices |-> devices, events |-> events, pdata |-> processed_data,
                  sh |-> score_human, sv |-> score_vehicle, sa |-> score_animal,
                  obj |-> event_object, subs |-> ws_subscriptions, time |-> now]
       IN  \E r \in {ProcessMessage(line, st)} :
           \E n \in {Notify(r.notified # <<>>, line.cam, ws_subscriptions, react)} :
           /\ devices' = r.devices
           /\ events' = r.events
           /\ processed_data' = r.pdata
           /\ score_human' = r.sh
           /\ score_vehicle' = r.sv
           /\ score_animal' = r.sa
           /\ event_object' = r.obj
           /\ ws_subscriptions' = n.subs
           /\ ws_task' = ReaderAfterLine(ws_task, IF n.err # "" THEN n.err ELSE r.err)
           /\ out' = [op |-> "line", ret |-> "None",
                      err |-> IF n.err # "" THEN n.err ELSE r.err,
                      notified |-> n.notified,
                      line |-> line, action |-> r.action, data |-> r.data]
           /\ hist' = IF line.numeric /\ line.ntok >= 4
                      THEN [hist EXCEPT ![line.cam] =
                               IF Len(@) < HistLen THEN Append(@, line)
                               ELSE Append(Tail(@), line)]
                      ELSE hist
    /\ nlines' = nlines + 1
    /\ UNCHANGED <<now, arbiterVars, ws_stream, ws_session, orphans, upd, lsn,
                   motion_detected_time, rdr>>

\* the reader task takes one line off the stream, the callbacks doing nothing
\* but take the record
StreamLine(l, max_lines) == StreamLineReacting(l, max_lines, Quiet)

\* subscribe_websocket(ws_callback)
SubscribeWithin(cb, max_subs) ==
    /\ Len(ws_subscriptions) < max_subs
    /\ ws_subscriptions' = Append(ws_subscriptions, cb)
    /\ out' = Outcome("subscribe", "None", "", <<>>)
    /\ UNCHANGED <<now, arbiterVars, streamVars, upd, lsn, ledgerVars, hist, nlines, rdr>>

Subscribe(cb) == SubscribeWithin(cb, MaxSubs)

\* the handle returned by subscribe_websocket is called
Unsubscribe(cb) ==
    /\ cb \in SeqRange(ws_subscriptions)
    /\ ws_subscriptions' = ListRemove(ws_subscriptions, cb)
    /\ out' = [cb |-> cb] @@ Outcome("unsubscribe", "None", "", <<>>)
    /\ UNCHANGED <<now, arbiterVars, streamVars, upd, lsn, ledgerVars, hist, nlines, rdr>>

\* the event id of an ordinal: the camera number as the stream writes it
LedgerId(n) == ToString(n)

LedgerHas(ev, n) == LedgerId(n) \in DOMAIN ev.vals

\* the ordinal of the next event id never added before
NextOrdinal(ev) ==
    IF ev.keys = <<>> THEN 1
    ELSE 1 + CHOOSE n \in 1..MaxLedgerIds : LedgerId(n) = ev.keys[Len(ev.keys)]

\* the fields of an event as a motion line adds it, and as MOTION_END updates it
AddFields(k) == [type |-> "motion", start |-> LineTimestamp(k), isOnline |-> TRUE]
UpdateFields == [end |-> LineTimestamp(2), isMotionDetected |-> FALSE]

\* SecspyEventStateMachine.add(event_id, event_json) on the ledger
LedgerAdd(n, fields) ==
    /\ events' = EventAdd(events, LedgerId(n), fields)
    /\ out' = [n |-> n, found |-> TRUE, event |-> fields]
                  @@ Outcome("ledger_add", "None", "", <<>>)
    /\ UNCHANGED <<now, arbiterVars, streamVars, upd, lsn, devices, motion_detected_time,
                   processed_data, score_human, score_vehicle, score_animal, event_object,
                   ws_subscriptions, hist, nlines, rdr>>

\* SecspyEventStateMachine.update(event_id, new_event_json) on the ledger
LedgerUpdate(n, fields) ==
    /\ \E r \in {EventUpdate(events, LedgerId(n), fields)} :
           /\ events' = r.ledger
           /\ out' = [n |-> n, found |-> r.found, event |-> r.event]
                         @@ Outcome("ledger_update", IF r.found THEN "dict" ELSE "None",
                                    "", <<>>)
    /\ UNCHANGED <<now, arbiterVars, streamVars, upd, lsn, devices, motion_detected_time,
                   processed_data, score_human, score_vehicle, score_animal, event_object,
                   ws_subscriptions, hist, nlines, rdr>>

Next ==
    \/ \E d \in TimeSteps : Tick(d)
    \/ \E force \in BOOLEAN : UpdateCall(force)
    \/ PollFails
    \/ \E snapshot \in Snapshots : PollAnswers(snapshot)
    \/ \E ok \in BOOLEAN : UpdateConnected(ok)
    \/ StartListeningCall
    \/ \E ok \in BOOLEAN : StartListeningConnected(ok)
    \/ StopListeningCall
    \/ StopListeningCancelled
    \/ \E raised \in BOOLEAN : TransportClose(raised)
    \/ \E l \in CoreLines : StreamLine(l, MaxLines)
    \/ \E cb \in Callbacks : Subscribe(cb)
    \/ \E cb \in Callbacks : Unsubscribe(cb)

\* The whole client over the small line alphabet.
Spec == Init /\ [][Next]_vars

\* The stream pipeline over the lines of the event life cycle: the consumer
\* subscribes, may poll once, and attaches the stream before the first line.
NextStream ==
    \/ nlines = 0 /\ is_first_update /\ UpdateCall(TRUE)
    \/ nlines = 0 /\ \E snapshot \in Snapshots : PollAnswers(snapshot)
    \/ nlines = 0 /\ UpdateConnected(TRUE)
    \/ nlines = 0 /\ StartListeningCall
    \/ nlines = 0 /\ StartListeningConnected(TRUE)
    \/ nlines = 0 /\ \E cb \in Callbacks : Subscribe(cb)
    \/ upd.pc = "idle" /\ lsn = "idle" /\ \E l \in StreamLines : StreamLine(l, MaxStreamLines)

SpecStream == Init /\ [][NextStream]_vars

\* The stream pipeline over the full line alphabet, for shorter streams.
NextLines ==
    \/ nlines = 0 /\ is_first_update /\ UpdateCall(TRUE)
    \/ nlines = 0 /\ \E snapshot \in Snapshots : PollAnswers(snapshot)
    \/ nlines = 0 /\ UpdateConnected(TRUE)
    \/ nlines = 0 /\ StartListeningCall
    \/ nlines = 0 /\ StartListeningConnected(TRUE)
    \/ nlines = 0 /\ \E cb \in Callbacks : Subscribe(cb)
    \/ upd.pc = "idle" /\ lsn = "idle" /\ \E l \in AllLines : StreamLine(l, MaxAllLines)

SpecLines == Init /\ [][NextLines]_vars

\* The subscription list with two callbacks, each registered more than once
\* if the consumer likes, over the small line alphabet.
NextSubs ==
    \/ nlines = 0 /\ StartListeningCall
    \/ nlines = 0 /\ StartListeningConnected(TRUE)
    \/ \E cb \in SubCallbacks : SubscribeWithin(cb, MaxRegs)
    \/ \E cb \in SubCallbacks : Unsubscribe(cb)
    \/ lsn = "idle" /\ \E l \in CoreLines : StreamLine(l, MaxSubLines)

SpecSubs == Init /\ [][NextSubs]_vars

\* The event ledger on its own: event ids "1", "2", ... are added in this
\* order, the ids of AgainOrdinals are added again and the ids of
\* ProbeOrdinals are updated.
NextLedger ==
    \/ \E n \in {NextOrdinal(events)} : n <= MaxLedgerIds /\ LedgerAdd(n, AddFields(0))
    \/ \E n \in AgainOrdinals : LedgerHas(events, n) /\ LedgerAdd(n, AddFields(1))
    \/ \E n \in ProbeOrdinals : LedgerUpdate(n, UpdateFields)

SpecLedger == Init /\ [][NextLedger]_vars

\* The arbiter alone, the clock moving by the poll interval or one second more.
NextArbiter ==
    \/ \E d \in ArbiterSteps : Tick(d)
    \/ \E force \in BOOLEAN : UpdateCall(force)
    \/ PollFails
    \/ \E snapshot \in Snapshots : PollAnswers(snapshot)
    \/ \E ok \in BOOLEAN : UpdateConnected(ok)

SpecArbiter == Init /\ [][NextArbiter]_vars

----------------
\* Properties of the client, one per numbered statement of the specification.

\* the step hands the answer of a poll to update()
PollAnswered == upd.pc = "poll" /\ upd'.pc # "poll" /\ out'.ret # "raise"

\* the step is the reader task handling a well-formed line
LineHandled == nlines' = nlines + 1 /\ out'.line.numeric /\ out'.line.ntok >= 4

\* the stream is attached and delivering
StreamActive == ws_task = "running" /\ ws_stream = "open"

\* the last_motion field of camera c's projected record, if it is there
LastMotionOf(pdata, c) ==
    IF c \in DOMAIN pdata /\ "last_motion" \in DOMAIN pdata[c]
    THEN [present |-> TRUE, value |-> pdata[c]["last_motion"]]
    ELSE [present |-> FALSE, value |-> NoneOpt]

\* the number a string of decimal digits denotes
RECURSIVE NumVal(_)
NumVal(digits) ==
    IF digits = <<>> THEN 0
    ELSE 10 * NumVal(SubSeq(digits, 1, Len(digits) - 1)) + digits[Len(digits)]

\* the number a stored score denotes
ScoreNum(x) == IF x.isStr THEN NumVal(x.digits) ELSE x.num

\* the category of the numerically strictly highest of three scores
NumericCategory(h, v, a) ==
    IF h > v /\ h > a THEN "Human"
    ELSE IF v > h /\ v > a THEN "Vehicle"
    ELSE IF a > h /\ a > v THEN "Animal"
    ELSE "None"

\* the plain number of a timestamp token, relative to midnight of EventDate
TokenNumber(ts) == (ts.date - EventDate) * 1000000 + ts.time

\* C1: a call of update() that returns hands back the full projected state
\* when it polled and the empty mapping when it did not, whether or not the
\* stream is attached and whether or not the stream check was due.
C1_UpdateReturnsStateOrEmpty ==
    (out.op = "update" /\ out.ret \notin {"pending", "raise"})
        => out.ret = (IF out.polled THEN "dict" ELSE "empty")

\* C2: once the transport has closed the stream, the reader task is over and
\* the first update() whose stream check is due attaches a new reader: the
\* step that performs the check issues the stream request or leaves a running
\* reader on an open stream.
C2_StreamCheckReattaches ==
    [][(ws_stream = "closed" /\ ws_task = "done"
        /\ last_websocket_check' # last_websocket_check)
          => \/ upd'.pc = "connect"
             \/ ws_task' = "running" /\ ws_stream' = "open"]_vars

\* C3: while the stream is active, the poll of an update(True) leaves the
\* event_on and event_length that a stream line has set for a camera as they
\* are, in whatever order start_listening, update and the lines came.
C3_ForcedPollKeepsStreamFlags ==
    [][(PollAnswered /\ upd.force /\ ~upd.include_events /\ StreamActive)
          => \A c \in DOMAIN processed_data :
                (c \in DOMAIN events.vals /\ "event_on" \in DOMAIN processed_data[c])
                    => /\ processed_data'[c]["event_on"] = processed_data[c]["event_on"]
                       /\ processed_data'[c]["event_length"]
                              = processed_data[c]["event_length"]]_vars

C5_UnknownCameraLineSkipped ==
    [][(LineHandled /\ out'.line.key \in EVENT_MESSAGES \cup CAMERA_MESSAGES
        /\ ~HasDevice(devices, out'.line.cam))
          => /\ ~HasDevice(devices', out'.line.cam)
             /\ (out'.line.cam \in DOMAIN processed_data'
                    => out'.line.cam \in DOMAIN processed_data)
             /\ out'.notified = <<>>]_vars

\* C6: after MOTION at t1, a three-score CLASSIFY at t2 and MOTION_END at t3
\* for one camera, the camera's record has start t1 and end t3, its length is
\* (t3 - t1) / 1000, and its scores and category are those of the CLASSIFY line.
C6_ClassifiedMotionLifecycle ==
    \A c \in CamIds :
        (/\ Len(hist[c]) = 3
         /\ hist[c][1].key = "MOTION"
         /\ hist[c][2].key = "CLASSIFY" /\ hist[c][2].ntok >= 10
         /\ hist[c][3].key = "MOTION_END")
        => /\ c \in DOMAIN events.vals
           /\ "start" \in DOMAIN events.vals[c] /\ events.vals[c]["start"] = hist[c][1].ts
           /\ "end" \in DOMAIN events.vals[c] /\ events.vals[c]["end"] = hist[c][3].ts
           /\ c \in DOMAIN processed_data
           /\ processed_data[c]["event_length"]
                  = TokenNumber(hist[c][3].ts) - TokenNumber(hist[c][1].ts)
           /\ ScoreNum(processed_data[c]["event_score_human"]) = NumVal(hist[c][2].h)
           /\ ScoreNum(processed_data[c]["event_score_vehicle"]) = NumVal(hist[c][2].v)
           /\ ScoreNum(processed_data[c]["event_score_animal"]) = NumVal(hist[c][2].a)
           /\ processed_data[c]["event_object"]
                  = NumericCategory(NumVal(hist[c][2].h), NumVal(hist[c][2].v),
                                    NumVal(hist[c][2].a))

\* C7: a MOTION line, or a TRIGGER_M line with its reason token, for camera c
\* emits an add action of type motion whose start is the line's first token,
\* whose camera is c and whose isMotionDetected is true, and right after it
\* camera c's record has event_on true and event_length 0.
C7_MotionLineOpensEvent ==
    (/\ out.op = "line" /\ out.line.numeric
     /\ \/ out.line.key = "MOTION" /\ out.line.ntok >= 4
        \/ out.line.key = "TRIGGER_M" /\ out.line.ntok >= 5)
    => /\ DOMAIN out.action = {"modelKey", "action", "id"}
       /\ out.action["action"] = "add"
       /\ {"type", "start", "camera", "isMotionDetected"} \subseteq DOMAIN out.data
       /\ out.data["type"] = "motion"
       /\ out.data["start"] = out.line.ts
       /\ out.data["camera"] = out.line.cam
       /\ out.data["isMotionDetected"] = TRUE
       /\ out.line.cam \in DOMAIN processed_data
       /\ processed_data[out.line.cam]["event_on"] = TRUE
       /\ processed_data[out.line.cam]["event_length"] = 0

\* a TRIGGER_M line with its reason token has just opened an event
C7_Witness ==
    /\ out.op = "line" /\ out.line.numeric
    /\ out.line.key = "TRIGGER_M" /\ out.line.ntok >= 5
    /\ out.line.cam \in DOMAIN processed_data
    /\ processed_data[out.line.cam]["event_on"]
    /\ out.notified # <<>>

\* C8: after MOTION at t1 and then MOTION_END at t2 for one camera, the
\* camera's record has event_on false and event_length (t2 - t1) / 1000; a
\* record with no end has length 0.
C8_MotionEndClosesEvent ==
    /\ \A c \in CamIds :
          (/\ Len(hist[c]) >= 2
           /\ hist[c][Len(hist[c]) - 1].key = "MOTION"
           /\ hist[c][Len(hist[c])].key = "MOTION_END")
          => /\ c \in DOMAIN processed_data
             /\ processed_data[c]["event_on"] = FALSE
             /\ processed_data[c]["event_length"]
                    = TokenNumber(hist[c][Len(hist[c])].ts)
                      - TokenNumber(hist[c][Len(hist[c]) - 1].ts)
    /\ \A c \in (DOMAIN events.vals) \cap (DOMAIN processed_data) :
          "end" \notin DOMAIN events.vals[c] => processed_data[c]["event_length"] = 0

\* a motion event of positive length has been closed
C8_Witness ==
    \E c \in CamIds :
        /\ Len(hist[c]) >= 2
        /\ hist[c][Len(hist[c]) - 1].key = "MOTION"
        /\ hist[c][Len(hist[c])].key = "MOTION_END"
        /\ c \in DOMAIN processed_data
        /\ processed_data[c]["event_length"] > 0

\* C9: once a camera's record carries an end, a later update to it (a
\* three-score CLASSIFY line or a MOTION_END line for the camera) leaves
\* event_on false.
C9_ClosedEventStaysOff ==
    [][\A c \in CamIds :
          (/\ c \in DOMAIN events.vals /\ "end" \in DOMAIN events.vals[c]
           /\ LineHandled /\ out'.line.cam = c
           /\ \/ out'.line.key = "MOTION_END"
              \/ out'.line.key = "CLASSIFY" /\ out'.line.ntok >= 10
           /\ out'.err = "")
          => /\ c \in DOMAIN processed_data'
             /\ ~processed_data'[c]["event_on"]]_vars

\* C10: after a three-score CLASSIFY line, the category of the camera's record
\* is that of the numerically strictly highest of the three scores.
C10_ClassifyPicksNumericallyHighest ==
    (/\ out.op = "line" /\ out.line.numeric
     /\ out.line.key = "CLASSIFY" /\ out.line.ntok >= 10
     /\ NumericCategory(NumVal(out.line.h), NumVal(out.line.v), NumVal(out.line.a)) # "None")
    => /\ out.line.cam \in DOMAIN processed_data
       /\ processed_data[out.line.cam]["event_object"]
              = NumericCategory(NumVal(out.line.h), NumVal(out.line.v), NumVal(out.line.a))

\* the highest of three numbers
Max3(h, v, a) == IF h >= v /\ h >= a THEN h ELSE IF v >= a THEN v ELSE a

\* the highest score is shared by two or three of the categories
TiedHighest(h, v, a) ==
    Cardinality({i \in 1..3 : <<h, v, a>>[i] = Max3(h, v, a)}) >= 2

\* the first category, in the order human, vehicle, animal, with the highest score
PrecedenceCategory(h, v, a) ==
    IF h = Max3(h, v, a) THEN "Human"
    ELSE IF v = Max3(h, v, a) THEN "Vehicle"
    ELSE "Animal"

\* the number of the animal score of a CLASSIFY line, below every score when
\* the line has two pairs only
AnimalOf(line) == IF line.ntok >= 10 THEN NumVal(line.a) ELSE -1

\* C11: after a CLASSIFY line with two or three label/score pairs whose
\* highest score is tied, the category of the camera's record is the first of
\* human, vehicle, animal among the tied ones.
C11_ClassifyTieByPrecedence ==
    (/\ out.op = "line" /\ out.line.numeric
     /\ out.line.key = "CLASSIFY" /\ out.line.ntok >= 8
     /\ TiedHighest(NumVal(out.line.h), NumVal(out.line.v), AnimalOf(out.line)))
    => /\ out.line.cam \in DOMAIN processed_data
       /\ "event_object" \in DOMAIN processed_data[out.line.cam]
       /\ processed_data[out.line.cam]["event_object"]
              = PrecedenceCategory(NumVal(out.line.h), NumVal(out.line.v), AnimalOf(out.line))

\* the callbacks called by the step an outcome is of, in the order of the calls
CalledBack(outcome) == [i \in 1..Len(outcome.notified) |-> outcome.notified[i].cb]

\* the projected recording-mode field an ARM_x / DISARM_x code is about
ModeField(action_key) ==
    IF action_key \in {"ARM_A", "DISARM_A"} THEN "recording_mode_a"
    ELSE IF action_key \in {"ARM_C", "DISARM_C"} THEN "recording_mode_c"
    ELSE "recording_mode_m"

\* the value an ARM_x / DISARM_x code gives its recording mode
ModeArmed(action_key) == action_key \in {"ARM_A", "ARM_C", "ARM_M"}

RecordingModeFields == {"recording_mode_a", "recording_mode_c", "recording_mode_m"}

\* C12: an ARM_x (DISARM_x) line for a camera of the device ledger sets the
\* camera's projected recording_mode_x to true (false), leaves the other two
\* recording modes as they were and notifies the subscribers.
C12_ArmLineSetsRecordingMode ==
    [][(/\ LineHandled
        /\ out'.line.key \in CAMERA_MESSAGES
        /\ HasDevice(devices, out'.line.cam)
        /\ out'.line.cam \in DOMAIN processed_data)
       => /\ out'.line.cam \in DOMAIN processed_data'
          /\ processed_data'[out'.line.cam][ModeField(out'.line.key)]
                 = ModeArmed(out'.line.key)
          /\ \A f \in RecordingModeFields \ {ModeField(out'.line.key)} :
                 processed_data'[out'.line.cam][f] = processed_data[out'.line.cam][f]
          /\ CalledBack(out') = ws_subscriptions]_vars

\* C13: an ONLINE / OFFLINE line for a camera of the projected state sets the
\* camera's online flag and neither creates nor replaces an event record nor
\* changes event_on or event_length: an open motion event stays open.
C13_OnlineLineKeepsEvent ==
    [][(/\ LineHandled
        /\ out'.line.key \in {"ONLINE", "OFFLINE"}
        /\ out'.line.cam \in DOMAIN processed_data)
       => /\ events' = events
          /\ out'.line.cam \in DOMAIN processed_data'
          /\ processed_data'[out'.line.cam]["online"] = (out'.line.key = "ONLINE")
          /\ processed_data'[out'.line.cam]["event_on"]
                 = processed_data[out'.line.cam]["event_on"]
          /\ processed_data'[out'.line.cam]["event_length"]
                 = processed_data[out'.line.cam]["event_length"]]_vars

\* C14: a line whose first 14 characters are not all digits, or whose action
\* code is neither a camera code nor an event code, is dropped: the ledgers,
\* the projected state and the accumulators are unchanged, no subscriber is
\* notified and no error comes up.
C14_ForeignLineDropped ==
    [][(/\ nlines' = nlines + 1
        /\ \/ ~out'.line.numeric
           \/ /\ out'.line.numeric /\ out'.line.ntok >= 4
              /\ out'.line.key \notin CAMERA_MESSAGES \cup EVENT_MESSAGES)
       => /\ UNCHANGED ledgerVars
          /\ out'.notified = <<>>
          /\ out'.err = ""]_vars

\* a FILE line has just been read with a camera in the projected state, an
\* event record in the ledger and a subscriber registered
C14_Witness ==
    /\ out.op = "line" /\ out.line.numeric /\ out.line.key = "FILE"
    /\ out.line.cam \in DOMAIN processed_data
    /\ events.keys # <<>>
    /\ ws_subscriptions # <<>>

\* C15: every step that changes the device ledger or the event ledger, a
\* stream line as well as a poll, calls all registered subscribers once each,
\* in the order of their registration, within the same step.
C15_LedgerMutationNotifiesAll ==
    [][(devices' # devices \/ events' # events)
       => CalledBack(out') = ws_subscriptions]_vars

\* a handle has just been called: the list got shorter
HandleCalled == Len(ws_subscriptions') < Len(ws_subscriptions)

\* the registrations of the callbacks other than cb, in their order
OtherRegistrations(subs, cb) == SelectSeq(subs, LAMBDA y : y # cb)

\* the list without its i-th registration
WithoutRegistration(subs, i) == SubSeq(subs, 1, i - 1) \o SubSeq(subs, i + 1, Len(subs))

\* C16 as stated: after the handle of subscribe(cb) is called, cb is no longer
\* registered, so no later line calls it, and the registrations of the other
\* callbacks and their order are as before.
C16_UnsubscribedNeverInvoked ==
    [][HandleCalled
       => /\ out'.cb \notin SeqRange(ws_subscriptions')
          /\ OtherRegistrations(ws_subscriptions', out'.cb)
                 = OtherRegistrations(ws_subscriptions, out'.cb)]_vars

\* C16 amended: calling a handle of subscribe(cb) removes the earliest
\* registration of cb and leaves every other registration and their order
\* unchanged; a callback registered once is no longer registered afterwards,
\* and every step that notifies calls exactly the registered callbacks, in
\* the order of the list.
C16_HandleRemovesEarliestRegistration ==
    [][/\ HandleCalled
          => /\ \E i \in 1..Len(ws_subscriptions) :
                    /\ ws_subscriptions[i] = out'.cb
                    /\ \A j \in 1..(i - 1) : ws_subscriptions[j] # out'.cb
                    /\ ws_subscriptions' = WithoutRegistration(ws_subscriptions, i)
             /\ Cardinality({i \in 1..Len(ws_subscriptions) :
                                 ws_subscriptions[i] = out'.cb}) = 1
                    => out'.cb \notin SeqRange(ws_subscriptions')
       /\ (nlines' = nlines + 1 /\ out'.notified # <<>>)
          => CalledBack(out') = ws_subscriptions]_vars

\* a handle of a callback registered twice has just been called, with the
\* other callback registered too and a line already read
C16_Witness ==
    /\ out.op = "unsubscribe"
    /\ out.cb \in SeqRange(ws_subscriptions)
    /\ SeqRange(ws_subscriptions) = SubCallbacks
    /\ nlines > 0

\* C17: stop_listening on an active listener cancels the reader task, waits
\* for it to end and only then closes the session: no step closes the session
\* while the reader task is still running.
C17_SessionClosedAfterTaskEnds ==
    [][(ws_session = "open" /\ ws_session' = "closed")
       => /\ ws_task # "running"
          /\ ws_task' # "running"]_vars

\* C18: stop_listening on an active listener returns without raising
\* anything to its caller and leaves is_listening false.
C18_StopReturnsNormally ==
    [][(lsn = "stopping" /\ lsn' = "idle")
       => /\ out'.op = "stop_listening"
          /\ out'.ret = "None"
          /\ out'.err = ""
          /\ ws_task' = "None"]_vars

\* C19: stop_listening with no listener active changes no state and raises
\* nothing: the second of two stops in a row leaves the client as the first
\* one left it.
C19_StopWithoutListenerIsNoOp ==
    [][(/\ ws_task = "None"
        /\ lsn = "idle"
        /\ out'.op = "stop_listening"
        /\ out' # out \/ lsn' # lsn)
       => /\ out'.ret = "None"
          /\ out'.err = ""
          /\ UNCHANGED <<now, arbiterVars, streamVars, upd, lsn, ledgerVars,
                         ws_subscriptions, hist, nlines, rdr>>]_vars

\* a second stop has just returned: no listener is active and the session is
\* the one the first stop closed
C19_Witness ==
    /\ out.op = "stop_listening" /\ out.ret = "None"
    /\ ws_task = "None"
    /\ ws_session = "closed"

\* update() has just been entered: the step from the idle arbiter that leaves
\* an update outcome or an update in flight
UpdateEntered ==
    /\ upd.pc = "idle"
    /\ out'.op = "update"
    /\ out' # out \/ upd' # upd

TickTime == IF upd.pc = "idle" THEN now ELSE upd.time

\* a tick of update() gets past its poll phase: it was entered with no poll
\* due, or its poll has answered
PastPollPhase == (UpdateEntered /\ ~out'.polled) \/ PollAnswered

\* a tick of update() ends its poll phase: as above, or its poll has failed
PollPhaseOver == (UpdateEntered /\ ~out'.polled) \/ (upd.pc = "poll" /\ upd'.pc # "poll")

\* the stream request of update()'s start_listening() has failed
AttachFailed == upd.pc = "connect" /\ upd'.pc = "idle" /\ ws_task' = ws_task

\* C21 as stated: on every tick with more than 120 s since lastStreamCheckTime
\* the stream check is made and lastStreamCheckTime becomes the tick's time; an
\* attach that fails raises nothing to the caller of update; the check is made
\* on no tick with 120 s or less since the last one.
C21_StreamCheckOnEveryDueTick ==
    [][/\ (PollPhaseOver /\ TickTime - last_websocket_check > 120)
          => /\ last_websocket_check' = TickTime
             /\ out'.checked
       /\ AttachFailed => (out'.ret # "raise" /\ out'.err = "")
       /\ last_websocket_check' # last_websocket_check
          => TickTime - last_websocket_check > 120]_vars

\* C21 amended: the same on every tick that gets past its poll phase; a tick
\* whose poll fails ends there and leaves lastStreamCheckTime as it was.
C21_StreamCheckOnDueTickPastPoll ==
    [][/\ PastPollPhase
          => /\ out'.checked <=> TickTime - last_websocket_check > 120
             /\ out'.checked => last_websocket_check' = TickTime
             /\ (out'.checked /\ ws_task = "None" /\ ws_session # "closed")
                    => upd'.pc = "connect"
       /\ AttachFailed
          => /\ out'.ret # "raise" /\ out'.err = ""
             /\ last_websocket_check' = last_websocket_check
             /\ last_websocket_check = upd.time
       /\ last_websocket_check' # last_websocket_check
          => (PastPollPhase /\ TickTime - last_websocket_check > 120)
       /\ (upd.pc = "poll" /\ upd'.pc = "idle" /\ out'.ret = "raise")
          => last_websocket_check' = last_websocket_check]_vars

\* the attach of a stream check has just failed, on a tick later than the
\* first, and update() has returned to its caller
C21_Witness ==
    /\ out.op = "update" /\ out.checked /\ out.ret \in {"dict", "empty"}
    /\ upd.pc = "idle"
    /\ ws_task = "None" /\ ws_session = "open"
    /\ last_websocket_check = out.time
    /\ out.time > StartTime

\* the poll of a tick of update() has failed
PollFailed == upd.pc = "poll" /\ upd'.pc = "idle" /\ out'.ret = "raise"

NewIdAdded == out'.op = "ledger_add" /\ out' # out /\ ~LedgerHas(events, out'.n)

\* the event ids of the ordinals first to last
IdsOf(first, last) == {LedgerId(i) : i \in first..last}

\* C23: the add of the (capacity + 1)-th distinct event id, and of every one
\* after it, takes out of the ledger exactly the id inserted first among those
\* in it, whether that event is open or closed, and leaves every other record
\* as it was; below the capacity nothing is taken out; an update on an id
\* taken out reports absence.
C23_EvictionIsFifo ==
    [][/\ NewIdAdded
          => /\ DOMAIN events'.vals
                    = IdsOf(IF out'.n > MAX_EVENT_HISTORY_IN_STATE_MACHINE
                            THEN out'.n - MAX_EVENT_HISTORY_IN_STATE_MACHINE + 1 ELSE 1,
                            out'.n)
             /\ \A id \in (DOMAIN events'.vals) \ {LedgerId(out'.n)} :
                    events'.vals[id] = events.vals[id]
       /\ (out'.op = "ledger_update" /\ out' # out /\ ~LedgerHas(events, out'.n))
          => (~out'.found /\ out'.ret = "None" /\ events' = events)]_vars

\* the first-inserted id has been taken out by the add of the id after the
\* capacity, and an update on it has just reported absence
C23_Witness ==
    /\ out.op = "ledger_update" /\ ~out.found /\ out.n = 1
    /\ Len(events.keys) = MAX_EVENT_HISTORY_IN_STATE_MACHINE
    /\ ~LedgerHas(events, 1)
    /\ LedgerHas(events, 2)
    /\ LedgerHas(events, MAX_EVENT_HISTORY_IN_STATE_MACHINE + 1)

\* an update has just found its record in the event ledger
UpdateMerged == out'.op = "ledger_update" /\ out' # out /\ LedgerHas(events, out'.n)

\* C24: add(id, F) followed by update(id, G), the fields of F and G disjoint,
\* gives a record with exactly the fields of F and of G, each with its value,
\* start being the one of the add.
C24_AddThenUpdateIsUnion ==
    [][(/\ UpdateMerged
        /\ (DOMAIN events.vals[LedgerId(out'.n)]) \cap (DOMAIN UpdateFields) = {})
       => /\ out'.found
          /\ events'.vals[LedgerId(out'.n)] = out'.event
          /\ DOMAIN out'.event
                 = (DOMAIN events.vals[LedgerId(out'.n)]) \cup (DOMAIN UpdateFields)
          /\ \A k \in DOMAIN events.vals[LedgerId(out'.n)] :
                 out'.event[k] = events.vals[LedgerId(out'.n)][k]
          /\ \A k \in DOMAIN UpdateFields : out'.event[k] = UpdateFields[k]
          /\ out'.event["start"] = events.vals[LedgerId(out'.n)]["start"]
          /\ events'.keys = events.keys]_vars

\* the record of an id added a second time has just been updated: it has the
\* start of that add and the end of the update
C24_Witness ==
    /\ out.op = "ledger_update" /\ out.found
    /\ LedgerHas(events, out.n)
    /\ DOMAIN events.vals[LedgerId(out.n)] = {"type", "start", "isOnline", "end", "isMotionDetected"}
    /\ events.vals[LedgerId(out.n)]["start"] = LineTimestamp(1)
    /\ events.vals[LedgerId(out.n)]["end"] = LineTimestamp(2)

\* an event id present in the ledger has just been added again
PresentIdAdded == out'.op = "ledger_add" /\ out' # out /\ LedgerHas(events, out'.n)

ScheduleKey(field) ==
    IF field = "recording_mode_a" THEN "mode-a"
    ELSE IF field = "recording_mode_c" THEN "mode-c"
    ELSE "mode-m"

\* the positions in a camera's lines of the ARM_x / DISARM_x lines for a field
OverrideLines(lines, field) ==
    {i \in 1..Len(lines) : lines[i].key \in CAMERA_MESSAGES /\ ModeField(lines[i].key) = field}

\* the highest number of a non-empty set of numbers
MaxOf(S) == CHOOSE i \in S : \A j \in S : j <= i

\* C26: for a camera of the device ledger each projected recording_mode_x is
\* the override of the last ARM_x / DISARM_x line the stream has brought for
\* the camera if there is one, and otherwise whether the poll reported the
\* schedule as armed.
C26_RecordingModeOverrideElseSchedule ==
    \A c \in (DOMAIN devices) \cap (DOMAIN processed_data) :
        \A f \in RecordingModeFields :
            processed_data[c][f] =
                IF OverrideLines(hist[c], f) # {}
                THEN ModeArmed(hist[c][MaxOf(OverrideLines(hist[c], f))].key)
                ELSE devices[c][ScheduleKey(f)] = "armed"

\* a line with the numeric prefix and too few tokens for its action code
TooFewTokens(line) ==
    /\ line.numeric
    /\ \/ line.ntok < 4
       \/ line.key = "TRIGGER_M" /\ line.ntok < 5
       \/ line.key = "CLASSIFY" /\ line.ntok < 10

\* C27: a line with the numeric prefix and too few tokens for its action is
\* dropped: nobody is notified and the ledgers, the projected state and the
\* accumulators are as they were before the line.
C27_ShortLineDropped ==
    [][(nlines' = nlines + 1 /\ TooFewTokens(out'.line))
       => /\ UNCHANGED ledgerVars
          /\ out'.notified = <<>>]_vars

\* C28: after a motion-start line for a camera the motion-detected-time side
\* table gives that line's time for the camera, and after the motion end that
\* follows it gives nothing.
C28_MotionDetectedTimeFollowsMotion ==
    (out.op = "line" /\ out.line.numeric /\ out.line.ntok >= 4)
    => /\ out.line.key = "MOTION"
          => GetMotionDetectedTime(motion_detected_time, out.line.cam) = Some(out.line.ts)
       /\ out.line.key = "MOTION_END"
          => GetMotionDetectedTime(motion_detected_time, out.line.cam) = NoneOpt

\* C29: an update on an event id with no record in the ledger, here by a
\* MOTION_END line for a camera whose event was never added, reports absence:
\* no ledger record and no projected state changes, nobody is notified and
\* nothing is raised.
C29_UpdateOnAbsentIdIsNoOp ==
    [][(/\ LineHandled
        /\ out'.line.key = "MOTION_END"
        /\ out'.line.cam \notin DOMAIN events.vals)
       => /\ out'.action["action"] = "update"
          /\ events' = events
          /\ devices' = devices
          /\ processed_data' = processed_data
          /\ out'.notified = <<>>
          /\ out'.err = ""]_vars

\* a MOTION_END line has just come for a camera with no record while another
\* camera has one, with a camera projected and a subscriber registered
C29_Witness ==
    /\ out.op = "line" /\ out.line.numeric /\ out.line.key = "MOTION_END"
    /\ out.line.cam \notin DOMAIN events.vals
    /\ events.keys # <<>>
    /\ processed_data # EmptyDict
    /\ ws_subscriptions # <<>>

\* C30: the event ledger never holds more than 2 x 256 = 512 records, the
\* capacity it is made with.
C30_LedgerWithinCapacity ==
    /\ MAX_EVENT_HISTORY_IN_STATE_MACHINE = 2 * 256
    /\ MAX_EVENT_HISTORY_IN_STATE_MACHINE = 512
    /\ Len(events.keys) <= 512
    /\ Cardinality(DOMAIN events.vals) = Len(events.keys)

\* two ids more than the capacity have been added and the ledger holds 512
C30_Witness ==
    /\ out.op = "ledger_add" /\ out.n = 514
    /\ Len(events.keys) = 512
    /\ Cardinality(DOMAIN events.vals) = 512

----------------------------------------------------------------------------
\* Polls over camera lists that change from one poll to the next.

\* lines read where the polls are what is looked at
MaxPollLines == 2

\* the camera lists of a recorder whose cameras come and go: camera "1" alone,
\* cameras "1" and "2", camera "2" alone
PollSnapshots ==
    {<<RawCamera("1", "yes", "armed", NoneOpt)>>,
     <<RawCamera("2", "no", "armed", NoneOpt)>>}
    \cup {<<RawCamera("1", "yes", "disarmed", Some(x)), RawCamera("2", "yes", "armed", NoneOpt)>> :
              x \in SinceLastMotion}

\* enable_camera(camera_id, enabled) after its await: the POST answered (ok) or
\* raised RequestError; on an answer the projected record is written, which
\* raises KeyError for a camera the projected state does not hold
EnableCamera(camera_id, enabled, ok) ==
    /\ upd.pc = "idle"
    /\ IF ~ok
       THEN /\ UNCHANGED processed_data
            /\ out' = [camera |-> camera_id, enabled |-> enabled]
                          @@ Outcome("enable_camera", "raise", "RequestError", <<>>)
       ELSE IF camera_id \notin DOMAIN processed_data
       THEN /\ UNCHANGED processed_data
            /\ out' = [camera |-> camera_id, enabled |-> enabled]
                          @@ Outcome("enable_camera", "raise", "KeyError", <<>>)
       ELSE /\ processed_data' = DictSet(processed_data, camera_id,
                                     DictUpdate(processed_data[camera_id],
                                                [enabled |-> Some(enabled)]))
            /\ out' = [camera |-> camera_id, enabled |-> enabled]
                          @@ Outcome("enable_camera", "True", "", <<>>)
    /\ UNCHANGED <<now, arbiterVars, streamVars, upd, lsn, devices, motion_detected_time,
                   events, score_human, score_vehicle, score_animal, event_object,
                   ws_subscriptions, hist, nlines, rdr>>

\* The consumer polls a recorder whose camera list changes, switches cameras
\* on and off, and reads a few lines of the stream.
NextPolls ==
    \/ UpdateCall(TRUE)
    \/ PollFails
    \/ \E snapshot \in PollSnapshots : PollAnswers(snapshot)
    \/ \E ok \in BOOLEAN : UpdateConnected(ok)
    \/ \E c \in CamIds, enabled \in BOOLEAN, ok \in BOOLEAN : EnableCamera(c, enabled, ok)
    \/ upd.pc = "idle" /\ \E l \in CoreLines : StreamLine(l, MaxPollLines)

SpecPolls == Init /\ [][NextPolls]_vars

\* C31: camera ids are never removed: over polls and stream lines the ids of
\* the Device Ledger and of the projected state only grow, also over a poll
\* whose camera list leaves out a camera seen before.
C31_CameraIdsOnlyGrow ==
    [][/\ DOMAIN devices \subseteq DOMAIN devices'
       /\ DOMAIN processed_data \subseteq DOMAIN processed_data']_vars

\* both cameras have been seen and the last poll answered with camera "2"
\* alone: camera "1" is still in the ledger and in the projected state
C31_Witness ==
    /\ out.op = "update" /\ out.polled /\ out.ret # "raise" /\ upd.pc # "poll"
    /\ ~is_first_update
    /\ DOMAIN devices = {"1", "2"}
    /\ DOMAIN processed_data = {"1", "2"}
    /\ devices["2"]["connected"] = "no"
    /\ devices["1"]["connected"] = "yes"

----------------------------------------------------------------------------
\* The Device Ledger on its own.

\* the fields the client hands to the ledger for a camera: the camera of a
\* poll's answer, the override of an ARM or DISARM line, and no field at all
DevicePartials(device_id) ==
    {RawCamera(device_id, "yes", "armed", NoneOpt), EmptyDict}
    \cup {RawCamera(device_id, "no", "disarmed", Some(x)) : x \in SinceLastMotion}
    \cup {CameraDataJson(k) : k \in {"ARM_A", "DISARM_A"}}

\* SecspyDeviceStateMachine.update(device_id, new_json) on the ledger
LedgerDeviceUpdate(device_id, new_json) ==
    /\ devices' = DeviceUpdate(devices, device_id, new_json)
    /\ out' = [id |-> device_id, partial |-> new_json, device |-> devices'[device_id]]
                  @@ Outcome("device_update", "dict", "", <<>>)
    /\ UNCHANGED <<now, arbiterVars, streamVars, upd, lsn, motion_detected_time, events,
                   processed_data, score_human, score_vehicle, score_animal, event_object,
                   ws_subscriptions, hist, nlines, rdr>>

\* SecspyDeviceStateMachine.has_device(device_id) on the ledger
LedgerHasDevice(device_id) ==
    /\ out' = [id |-> device_id, found |-> HasDevice(devices, device_id)]
                  @@ Outcome("has_device", "bool", "", <<>>)
    /\ UNCHANGED <<now, arbiterVars, streamVars, upd, lsn, ledgerVars,
                   ws_subscriptions, hist, nlines, rdr>>

NextDevices ==
    \/ \E c \in CamIds : \E new_json \in DevicePartials(c) : LedgerDeviceUpdate(c, new_json)
    \/ \E c \in CamIds : LedgerHasDevice(c)

SpecDevices == Init /\ [][NextDevices]_vars

\* the keys of a device's record, none for a device the ledger does not hold
DeviceKeys(devs, device_id) ==
    IF device_id \in DOMAIN devs THEN DOMAIN devs[device_id] ELSE {}

\* C32: update(id, partial) of the Device Ledger creates the entry if it is
\* absent and otherwise changes exactly the keys of partial: every other key
\* of the entry, and the entry of every other camera, stay as they are; the
\* ids has_device answers true for are the ids held before and the id updated,
\* so exactly the ids updated at least once.
C32_DeviceUpdateMergesPartial ==
    [][/\ out'.op = "device_update" =>
            /\ DOMAIN devices' = DOMAIN devices \cup {out'.id}
            /\ \A k \in DOMAIN out'.partial : devices'[out'.id][k] = out'.partial[k]
            /\ DOMAIN devices'[out'.id]
                   = DeviceKeys(devices, out'.id) \cup DOMAIN out'.partial
            /\ \A k \in DeviceKeys(devices, out'.id) \ DOMAIN out'.partial :
                   devices'[out'.id][k] = devices[out'.id][k]
            /\ \A c \in DOMAIN devices \ {out'.id} : devices'[c] = devices[c]
            /\ out'.device = devices'[out'.id]
       /\ out'.op = "has_device" =>
            /\ devices' = devices
            /\ out'.found = (out'.id \in DOMAIN devices)]_vars

\* camera "1" holds an override and the fields of a poll, camera "2" was
\* created by an update with no field, and the last update of camera "1"
\* changed the poll's fields and left the override
C32_Witness ==
    /\ out.op = "device_update" /\ out.id = "1"
    /\ "connected" \in DOMAIN out.partial
    /\ DOMAIN devices = {"1", "2"}
    /\ devices["2"] = EmptyDict
    /\ "recordingSettings_A" \in DOMAIN devices["1"]
    /\ devices["1"]["connected"] = "no"
    /\ "timesincelastmotion" \in DOMAIN devices["1"]

\* C34: once a poll has named a camera, its projected record has an enabled
\* attribute that is a boolean, in every state from then on: later polls
\* neither clear it nor change it.
C34_PolledCameraHasBooleanEnabled ==
    \A c \in DOMAIN devices :
        /\ c \in DOMAIN processed_data
        /\ "enabled" \in DOMAIN processed_data[c]
        /\ processed_data[c]["enabled"] \in {Some(TRUE), Some(FALSE)}

\* C38: every camera record of the projected state holds the event fields,
\* whichever poll brought the camera in, and they have their defaults for as
\* long as no stream line has been handled for the camera.
C38_EveryRecordHasEventFields ==
    \A c \in DOMAIN processed_data :
        /\ DOMAIN PROCESSED_EVENT_EMPTY \subseteq DOMAIN processed_data[c]
        /\ hist[c] = <<>> =>
               \A k \in DOMAIN PROCESSED_EVENT_EMPTY :
                   processed_data[c][k] = PROCESSED_EVENT_EMPTY[k]

\* no CLASSIFY or TRIGGER_M line has been handled for camera c
NoClassificationFor(c) ==
    \A i \in 1..Len(hist[c]) : hist[c][i].key \notin {"CLASSIFY", "TRIGGER_M"}

\* a record holds no score other than the default and no category
NothingClassified(record, score_keys, object_key) ==
    /\ \A k \in score_keys \cap DOMAIN record : record[k] = IntScore(0)
    /\ object_key \in DOMAIN record => record[object_key] \in {PyNone, "None"}

\* C35: the scores and the category that the CLASSIFY and TRIGGER_M lines of
\* one camera report never show in the event record or in the projected record
\* of another camera: a camera with no such line of its own has none of them.
C35_ClassificationStaysWithItsCamera ==
    \A c \in CamIds :
        NoClassificationFor(c) =>
            /\ c \in DOMAIN events.vals =>
                   NothingClassified(events.vals[c],
                       {"event_score_human", "event_score_vehicle", "event_score_animal"},
                       "reason")
            /\ c \in DOMAIN processed_data =>
                   NothingClassified(processed_data[c],
                       {"event_score_human", "event_score_vehicle", "event_score_animal"},
                       "event_object")

\* the reader tasks that exist and have not ended
ReaderTasks == (IF ws_task = "running" THEN 1 ELSE 0) + orphans

\* C36: at any time the client has at most one stream-reader task, also when
\* a second start_listening (the consumer's or the one of update) is entered
\* while the first still awaits the stream request.
C36_AtMostOneReaderTask == ReaderTasks <= 1

\* stop_listening has just ended on a listener that was attached
StoppedActiveListener ==
    /\ out.op = "stop_listening" /\ out.ret # "None"
    /\ lsn = "idle" /\ upd.pc = "idle"
    /\ ws_task = "None"

\* the step enters start_listening, by the consumer's call or by the stream
\* check of update()
StartListeningEntered ==
    \/ out'.op = "start_listening"
    \/ out'.op = "update" /\ last_websocket_check' # last_websocket_check

\* C40: after stop_listening has ended an active listener, the next
\* start_listening, called by the consumer or by a due stream check, asks the
\* server for the stream again, so that a reachable server gets a new reader
\* attached and is_listening becomes true again.
C40_StartAfterStopAttaches ==
    [][(StoppedActiveListener /\ StartListeningEntered)
          => lsn' = "connect" \/ upd'.pc = "connect"]_vars

----------------------------------------------------------------------------
\* Callbacks that react while they are notified.

\* lines read where the callbacks react
MaxNotifyLines == 2

\* what a callback may do when it is invoked
ReactionKinds == {NoReaction, Raises} \cup {CallsHandleOf(cb) : cb \in SubCallbacks}
Reactions == [SubCallbacks -> ReactionKinds]

\* the lines of the motion life cycle, and lines that raise in the tokenizer
\* (too few tokens), in the ledger merge and in the resolver (ONLINE before
\* MOTION_END leaves an event with an end and no start)
NotifyLines ==
    CoreLines
    \cup {Line(k, "1", 4, "", NoScores) : k \in {"ONLINE", "TRIGGER_M"}}
    \cup {Line("MOTION", "1", 3, "", NoScores)}

\* The stream is attached, callbacks are registered and called off, and the
\* callbacks react to the lines read.
NextNotify ==
    \/ nlines = 0 /\ StartListeningCall
    \/ nlines = 0 /\ StartListeningConnected(TRUE)
    \/ \E cb \in SubCallbacks : SubscribeWithin(cb, MaxRegs)
    \/ \E cb \in SubCallbacks : Unsubscribe(cb)
    \/ lsn = "idle" /\ \E l \in NotifyLines, react \in Reactions :
                            StreamLineReacting(l, MaxNotifyLines, react)

SpecNotify == Init /\ [][NextNotify]_vars

\* C39: in the notification of one mutation, every callback that was
\* subscribed when the notification began is invoked exactly once, also when
\* a callback calls an unsubscribe handle while it is invoked; notifications
\* that an exception of a callback cut short are left aside, and so are lists
\* that hold a callback more than once.
C39_NotificationReachesAllSubscribed ==
    [][(/\ nlines' = nlines + 1 /\ out'.notified # <<>> /\ out'.err = ""
        /\ Cardinality(SeqRange(ws_subscriptions)) = Len(ws_subscriptions))
          => CalledBack(out') = ws_subscriptions]_vars

----------------------------------------------------------------------------
\* The reader task inside a line.  The event loop hands control to another
\* coroutine only at an await.  The reader awaits in "async for msg in
\* self._ws_stream.content" alone: _process_message and what it calls are
\* plain functions, so between taking a message and asking for the next one
\* the reader keeps the loop.  Here the handling of a line is laid out in its
\* three parts, the ledger merge, the projection and the notification, and
\* every other coroutine runs only while the loop is free.

\* lines read where the reader is followed inside a line
MaxReaderLines == 2

\* the loop is free for another coroutine whatever the reader is doing
LoopFreeAlways(reader) == TRUE

\* the loop is free for another coroutine: the reader is at its await
LoopFree(reader) == reader.pc = "await"

\* the reader takes a line: _process_message up to the ledger merge and the
\* accumulators; what is left to do is kept in rdr
ReaderMerges(l, max_lines) ==
    /\ rdr.pc = "await"
    /\ ws_stream = "open"
    /\ ws_task = "running" \/ orphans > 0
    /\ nlines < max_lines
    /\ LET line == [l EXCEPT !.ts = LineTimestamp(nlines)]
           st == [devices |-> devices, events |-> events, pdata |-> processed_data,
                  sh |-> score_human, sv |-> score_vehicle, sa |-> score_animal,
                  obj |-> event_object, subs |-> ws_subscriptions, time |-> now]
       IN  \E r \in {ProcessMessage(line, st)} :
           /\ devices' = r.devices
           /\ events' = r.events
           /\ score_human' = r.sh
           /\ score_vehicle' = r.sv
           /\ score_animal' = r.sa
           /\ event_object' = r.obj
           /\ rdr' = [pc |-> "merged", line |-> <<line>>, pending |-> <<r>>]
    /\ UNCHANGED <<now, arbiterVars, streamVars, upd, lsn, motion_detected_time,
                   processed_data, ws_subscriptions, out, hist, nlines>>

\* the reader inside a line: fire_event's _update_device
ReaderProjects ==
    /\ rdr.pc = "merged"
    /\ processed_data' = rdr.pending[1].pdata
    /\ rdr' = [rdr EXCEPT !.pc = "projected"]
    /\ UNCHANGED <<now, arbiterVars, streamVars, upd, lsn, devices, motion_detected_time,
                   events, score_human, score_vehicle, score_animal, event_object,
                   ws_subscriptions, out, hist, nlines>>

\* the reader inside a line: fire_event's callbacks, the return of
\* _process_message, and back to the await
ReaderNotifies ==
    /\ rdr.pc = "projected"
    /\ LET line == rdr.line[1]
           r == rdr.pending[1]
       IN  \E n \in {Notify(r.notified # <<>>, line.cam, ws_subscriptions, Quiet)} :
           /\ ws_subscriptions' = n.subs
           /\ ws_task' = ReaderAfterLine(ws_task, IF n.err # "" THEN n.err ELSE r.err)
           /\ out' = [op |-> "line", ret |-> "None",
                      err |-> IF n.err # "" THEN n.err ELSE r.err,
                      notified |-> n.notified,
                      line |-> line, action |-> r.action, data |-> r.data]
           /\ hist' = IF line.numeric /\ line.ntok >= 4
                      THEN [hist EXCEPT ![line.cam] =
                               IF Len(@) < HistLen THEN Append(@, line)
                               ELSE Append(Tail(@), line)]
                      ELSE hist
    /\ nlines' = nlines + 1
    /\ rdr' = AtAwait
    /\ UNCHANGED <<now, arbiterVars, ws_stream, ws_session, orphans, upd, lsn,
                   devices, motion_detected_time, events, processed_data,
                   score_human, score_vehicle, score_animal, event_object>>

\* The reader followed inside its lines, with polls and a subscriber beside it.
NextReader ==
    \/ LoopFree(rdr) /\ \E force \in BOOLEAN : UpdateCall(force)
    \/ LoopFree(rdr) /\ PollFails
    \/ LoopFree(rdr) /\ \E snapshot \in Snapshots : PollAnswers(snapshot)
    \/ LoopFree(rdr) /\ UpdateConnected(TRUE)
    \/ LoopFree(rdr) /\ \E cb \in Callbacks : Subscribe(cb)
    \/ \E l \in CoreLines : ReaderMerges(l, MaxReaderLines)
    \/ ReaderProjects
    \/ ReaderNotifies

SpecReader == Init /\ [][NextReader]_vars

\* the part of a line's handling that follows the given one
NextPhase(pc) ==
    IF pc = "await" THEN "merged" ELSE IF pc = "merged" THEN "projected" ELSE "await"

\* C33: the reader handles the lines one at a time and in their order of
\* arrival: while a line is inside its handling every step is the next part of
\* that handling, so its ledger merge, its projection and its notification are
\* over before the next line is taken, and no poll merges its answer, and no
\* call of update() starts or ends, inside the handling of a line.
C33_LinesOneAtATime ==
    [][/\ rdr'.pc # rdr.pc => rdr'.pc = NextPhase(rdr.pc)
       /\ rdr.pc # "await" =>
              /\ rdr'.pc # rdr.pc
              /\ rdr'.pc # "await" => rdr'.line = rdr.line
              /\ upd' = upd
              /\ is_first_update' = is_first_update
              /\ last_device_update_time' = last_device_update_time
       /\ (rdr.pc = "await" /\ rdr'.pc # "await") =>
              /\ rdr'.line[1].ts = LineTimestamp(nlines)
              /\ nlines' = nlines
       /\ (rdr.pc # "await" /\ rdr'.pc = "await") =>
              /\ nlines' = nlines + 1
              /\ out'.op = "line" /\ out'.line = rdr.line[1]
              /\ events' = events /\ devices' = devices
              /\ processed_data' = processed_data
       /\ PollAnswered => rdr.pc = "await" /\ rdr'.pc = "await"]_vars

\* the answer of a poll is awaited while the second line is inside its
\* handling, merged into the event ledger and not yet projected
C33_Witness ==
    /\ upd.pc = "poll"
    /\ rdr.pc = "merged"
    /\ nlines = 1
    /\ rdr.line[1].ts = LineTimestamp(1)
    /\ rdr.line[1].cam \in DOMAIN events.vals
    /\ devices # EmptyDict

====
